---------------------------- MODULE Spec2Model ----------------------------
(***************************************************************************)
(* Admission pipeline of the Slack bot: the duplicate detector             *)
(* (app/utils/helpers.py), the two-tier fixed-window rate limiter          *)
(* (app/utils/rate_limiter.py), the cleanup thread (app/main.py), the      *)
(* intent classifier (app/services/slack_service.py) and the handler that  *)
(* runs them (app/routes/slack.py).                                        *)
(*                                                                         *)
(* Threads.  slack_events (app/routes/slack.py:21) is an `async def`       *)
(* whose only await is request.json() at line 25; everything after it,     *)
(* is_duplicate_message and is_rate_limited included, is synchronous, so   *)
(* the bodies of concurrent request tasks run one after the other on the   *)
(* event-loop thread.  rate_limit_cleanup (app/main.py:29) runs in a       *)
(* threading.Thread of its own and takes no lock: its dictionary           *)
(* operations interleave with those of the request being handled.          *)
(*                                                                         *)
(* Time.  datetime.now() and time.time() read the clock `now`, which       *)
(* advances between any two steps.  Seconds are scaled: the windows and    *)
(* the staleness threshold are a few ticks long.                           *)
(*                                                                         *)
(* Specifications.  Spec: is_rate_limited statement by statement with the  *)
(* cleanup thread interleaved.  SpecDedup: is_duplicate_message alone.     *)
(* SpecPipeline: slack_events from the arrival of a request to its         *)
(* response, one external call per step.  SpecLimiter: whole calls of      *)
(* is_rate_limited, of get_remaining_requests and of get_stats and whole   *)
(* runs of clear_expired_entries, next to a limiter that is never cleaned. *)
(* SpecCleanup: the cleanup thread statement by statement next to whole    *)
(* calls of is_rate_limited, the thread being scheduled fairly.            *)
(* SpecBurst: the same two threads with the history of the admissions.     *)
(* SpecClassifier: the intent classifier on every short message over a few *)
(* words.                                                                  *)
(***************************************************************************)
EXTENDS Integers, Sequences, FiniteSets, TLC

\* ------------------------------------------------------------------ bounds
\* A message text is at most MaxWords words long.
MaxWords == 4
\* The clock runs for Horizon ticks.
Horizon == 2
\* New requests stop once the two hit counters total MaxHits.
MaxHits == 1

\* --------------------------------------------------------- configuration
MAX_CACHE_SIZE == 2
CACHE_EXPIRY_SECONDS == 2
USER_RATE_LIMIT_WINDOW == 1
USER_RATE_LIMIT_MAX == 2
TEAM_RATE_LIMIT_WINDOW == 1
TEAM_RATE_LIMIT_MAX == 2

VARIABLES
    now,                 \* the wall clock
    \* ---- helpers.py
    processed_messages,  \* the dict, as its items in insertion order: <<hash, ts>>
    dup,                 \* the last is_duplicate_message call: [ret, path]
    dup_evicted,         \* the items the last call's cleanup popped
    watch,               \* history: one event submitted while fresh (or NoEvent)
    watch_evicted,       \* history: its entry has been popped since
    dup_again            \* history: the last call resubmitted the watched event
                         \*   while fresh: "no", "live" (entry never popped), "evicted"

VARIABLES
    \* ---- rate_limiter.py: the singleton user_rate_limiter
    enabled,             \* self.enabled
    user_requests,       \* user_id -> [count, window_start]
    team_requests,       \* team_id -> [count, window_start]
    user_limit_hits,
    team_limit_hits,
    \* ---- the event-loop thread, inside is_rate_limited
    pc,                  \* "idle" between two requests, else the next statement
    user_id, team_id,    \* the arguments of the call
    current_time,        \* line 76
    count, window_start, \* line 81
    team_count, team_window_start,   \* line 105
    ret,                 \* what the last call returned or raised
    wrote_team,          \* history: the call has written team_requests or team_limit_hits
    passed,              \* history: per user, the calls that passed the user check
                         \*   since the user's window was last set to count 1
    team_passed,         \* history: per team, the calls that passed the team check
                         \*   since the team's window was last set to count 1
    \* ---- the cleanup thread, inside rate_limit_cleanup
    cl_pc,               \* "sleep", or the loop of clear_expired_entries it is in
    cl_time,             \* line 197
    iter_used,           \* the dict size the running items() iterator saw at its start
    visited,             \* the keys the running iterator has yielded
    expired_users, expired_teams,    \* lines 200, 211
    todo,                \* the keys the running deletion loop has still to delete
    cl_ret,              \* what the last clear_expired_entries returned
    cl_exc,              \* the exception the last cycle ended with (main.py:46), or ""
    stats,               \* main.py:44
    deleted_live         \* history: the last del removed a window unexpired at that moment

VARIABLES
    \* ---- the event-loop thread, inside slack_events (routes/slack.py)
    h_pc,                \* "idle" between two requests, else the next statement
    h_data,              \* the request body being handled
    status,              \* the "status" the handler returned
    calls,               \* the external calls the handler has made, in order
    intent,              \* lines 111-113: the branch taken, and the image prompt
    remaining,           \* line 88
    reset_seconds,       \* line 89
    failed,              \* history: the event whose handling last ended in "error"
                         \*   or in a notice, after its admission
                         \*   or in "rate_limited"
    failed_how,          \* history: which of the two
    redelivery           \* history: the request being handled delivers `failed` again

VARIABLES
    \* ---- a second limiter that takes the same calls and is never cleaned
    ref_user_requests,
    ref_team_requests,
    ref_ret

VARIABLES
    \* ---- history of the calls AdmitCall makes
    admitted             \* per user, the calls is_rate_limited admitted with rate
                         \*   limiting on at each of the last
                         \*   USER_RATE_LIMIT_WINDOW + 1 instants, the current one last

VARIABLES
    \* ---- a message on its way through the classifier
    typed,               \* the words of the message text, in order
    verdict              \* what the classifier returned for it and the branch the
                         \*   handler takes (routes/slack.py:111-113), once classified

dedup_vars == <<processed_messages, dup, dup_evicted, watch, watch_evicted, dup_again>>

limiter_vars == <<enabled, user_requests, team_requests, user_limit_hits, team_limit_hits>>

request_vars == <<pc, user_id, team_id, current_time, count, window_start,
                  team_count, team_window_start, ret, wrote_team, passed,
                  team_passed>>

cleanup_vars == <<cl_pc, cl_time, iter_used, visited, expired_users, expired_teams,
                  todo, cl_ret, cl_exc, stats, deleted_live>>

pipeline_vars == <<h_pc, h_data, status, calls, intent, remaining, reset_seconds,
                   failed, failed_how, redelivery>>

reference_vars == <<ref_user_requests, ref_team_requests, ref_ret>>

history_vars == <<admitted>>

classifier_vars == <<typed, verdict>>

vars == <<now, dedup_vars, limiter_vars, request_vars, cleanup_vars, pipeline_vars,
          reference_vars, history_vars, classifier_vars>>

\* ------------------------------------------------------------------ events
\* event["text"], event["files"] (their ids) and event["ts"], each a string,
\* written as its sequence of characters.
Texts == {<<>>, <<"a">>}
FileLists == {<<>>, <<"F", "G">>}
Timestamps == {<<"9">>, <<"1", "0">>, <<"1", "1">>}
Events == [text : Texts, files : FileLists, ts : Timestamps]
NoEvent == [text |-> <<>>, files |-> <<>>, ts |-> <<>>]

\* Code point order of the characters that occur in a timestamp.
Ord(c) ==
    CASE c = "0" -> 0 [] c = "1" -> 1 [] c = "2" -> 2 [] c = "3" -> 3
      [] c = "4" -> 4 [] c = "5" -> 5 [] c = "6" -> 6 [] c = "7" -> 7
      [] c = "8" -> 8 [] c = "9" -> 9

\* float(ts) of a string of digits.
RECURSIVE ParseFloat(_)
ParseFloat(s) ==
    IF s = <<>> THEN 0
    ELSE 10 * ParseFloat(SubSeq(s, 1, Len(s) - 1)) + Ord(s[Len(s)])

Digits == {"0", "1", "2", "3", "4", "5", "6", "7", "8", "9"}

\* float(ts) raises ValueError: a ts with a character that is no digit (the
\* timestamps here are strings of digits, or hold a letter).
FloatRaises(s) == \E i \in 1..Len(s) : s[i] \notin Digits

\* Python's str.__le__: code point by code point, a proper prefix is smaller.
RECURSIVE StrLe(_, _)
StrLe(a, b) ==
    IF a = <<>> THEN TRUE
    ELSE IF b = <<>> THEN FALSE
    ELSE IF Head(a) = Head(b) THEN StrLe(Tail(a), Tail(b))
    ELSE Ord(Head(a)) < Ord(Head(b))

\* "-".join(ids)
RECURSIVE Join(_)
Join(ids) ==
    IF ids = <<>> THEN <<>>
    ELSE IF Len(ids) = 1 THEN <<ids[1]>>
    ELSE <<ids[1], "-">> \o Join(Tail(ids))

\* f"{text}|{files}|{timestamp}"
Signature(event) ==
    event.text \o <<"|">> \o Join(event.files) \o <<"|">> \o event.ts

\* hashlib.md5(...).hexdigest(): a digest, taken to be free of collisions.
create_message_hash(event) == <<"md5", Signature(event)>>

\* ------------------------------------------------------------------ strings
\* A str is the sequence of its characters.  None is a value no str equals.
NoneValue == <<"None">>

\* str.lower() on one character.
Lower(c) ==
    CASE c = "A" -> "a" [] c = "B" -> "b" [] c = "C" -> "c" [] c = "D" -> "d"
      [] c = "E" -> "e" [] c = "F" -> "f" [] c = "G" -> "g" [] c = "H" -> "h"
      [] c = "I" -> "i" [] c = "J" -> "j" [] c = "K" -> "k" [] c = "L" -> "l"
      [] c = "M" -> "m" [] c = "N" -> "n" [] c = "O" -> "o" [] c = "P" -> "p"
      [] c = "Q" -> "q" [] c = "R" -> "r" [] c = "S" -> "s" [] c = "T" -> "t"
      [] c = "U" -> "u" [] c = "V" -> "v" [] c = "W" -> "w" [] c = "X" -> "x"
      [] c = "Y" -> "y" [] c = "Z" -> "z" [] OTHER -> c

\* s.lower()
lower(s) == [i \in 1..Len(s) |-> Lower(s[i])]

IsSpace(c) == c \in {" ", "\t", "\n"}

RECURSIVE lstrip(_)
lstrip(s) ==
    IF s # <<>> /\ IsSpace(Head(s)) THEN lstrip(Tail(s)) ELSE s

RECURSIVE rstrip(_)
rstrip(s) ==
    IF s # <<>> /\ IsSpace(s[Len(s)]) THEN rstrip(SubSeq(s, 1, Len(s) - 1)) ELSE s

\* s.strip()
strip(s) == rstrip(lstrip(s))

\* s.startswith(prefix)
startswith(s, prefix) ==
    /\ Len(prefix) <= Len(s)
    /\ SubSeq(s, 1, Len(prefix)) = prefix

\* The positions at which sub occurs in s.
Occurrences(s, sub) ==
    {i \in 1..(Len(s) - Len(sub) + 1) : SubSeq(s, i, i + Len(sub) - 1) = sub}

\* sub in s
Contains(s, sub) == Occurrences(s, sub) # {}

\* any(word in s for word in words)
AnyIn(words, s) == \E i \in 1..Len(words) : Contains(s, words[i])

\* next((word for word in words if word in s), None), when there is one
FirstIn(words, s) ==
    LET i == CHOOSE k \in 1..Len(words) :
                 /\ Contains(s, words[k])
                 /\ \A j \in 1..(k - 1) : ~Contains(s, words[j])
    IN  words[i]

\* s.split(sep, 1)[1], when sep occurs in s
AfterFirst(s, sep) ==
    LET i == CHOOSE k \in Occurrences(s, sep) : \A j \in Occurrences(s, sep) : k <= j
    IN  SubSeq(s, i + Len(sep), Len(s))

\* s.split(): the maximal runs of characters that are not whitespace
RECURSIVE split(_)
split(s) ==
    LET t == lstrip(s)
        n == IF \E i \in 1..Len(t) : IsSpace(t[i])
             THEN (CHOOSE i \in 1..Len(t) :
                       IsSpace(t[i]) /\ \A j \in 1..(i - 1) : ~IsSpace(t[j])) - 1
             ELSE Len(t)
    IN  IF t = <<>> THEN <<>>
        ELSE <<SubSeq(t, 1, n)>> \o split(SubSeq(t, n + 1, Len(t)))

\* --------------------------------------------------------- intent classifier
image_generation_verbs ==
    << <<"g", "e", "n", "e", "r", "a", "t", "e">>,
       <<"c", "r", "e", "a", "t", "e">>,
       <<"m", "a", "k", "e">>,
       <<"d", "r", "a", "w">>,
       <<"d", "e", "s", "i", "g", "n">>,
       <<"p", "r", "o", "d", "u", "c", "e">>,
       <<"r", "e", "n", "d", "e", "r">>,
       <<"s", "h", "o", "w">>,
       <<"v", "i", "s", "u", "a", "l", "i", "z", "e">>,
       <<"d", "e", "p", "i", "c", "t">>,
       <<"i", "l", "l", "u", "s", "t", "r", "a", "t", "e">>,
       <<"c", "r", "a", "f", "t">> >>
image_nouns ==
    << <<"i", "m", "a", "g", "e">>,
       <<"p", "i", "c", "t", "u", "r", "e">>,
       <<"p", "h", "o", "t", "o">>,
       <<"m", "e", "m", "e">>,
       <<"d", "r", "a", "w", "i", "n", "g">>,
       <<"a", "r", "t">>,
       <<"i", "l", "l", "u", "s", "t", "r", "a", "t", "i", "o", "n">>,
       <<"v", "i", "s", "u", "a", "l">>,
       <<"g", "r", "a", "p", "h", "i", "c">>,
       <<"d", "i", "a", "g", "r", "a", "m">>,
       <<"s", "c", "e", "n", "e">>,
       <<"p", "o", "r", "t", "r", "a", "i", "t">>,
       <<"c", "a", "r", "t", "o", "o", "n">> >>
words_to_trim ==
    << <<"a", " ">>,
       <<"a", "n", " ">>,
       <<"t", "h", "e", " ">>,
       <<"o", "f", " ">>,
       <<"a", "b", "o", "u", "t", " ">>,
       <<"s", "h", "o", "w", "i", "n", "g", " ">> >>
summarize_keywords ==
    << <<"s", "u", "m", "m", "a", "r", "i", "z", "e">>,
       <<"s", "u", "m", "m", "a", "r", "y">>,
       <<"s", "u", "m", "m", "a", "r", "i", "z", "a", "t", "i", "o", "n">>,
       <<"s", "u", "m", "m", "a", "r", "i", "s", "e">> >>
web_keywords ==
    << <<"w", "e", "b", "p", "a", "g", "e">>,
       <<"w", "e", "b", "s", "i", "t", "e">>,
       <<"w", "e", "b">>,
       <<"p", "a", "g", "e">>,
       <<"u", "r", "l">>,
       <<"l", "i", "n", "k">>,
       <<"s", "i", "t", "e">> >>
url_schemes ==
    << <<"h", "t", "t", "p", ":", "/", "/">>,
       <<"h", "t", "t", "p", "s", ":", "/", "/">> >>

\* Lines 130-134: the first word of words_to_trim the prompt starts with is cut
\* off, once.
TrimFiller(prompt) ==
    IF \E i \in 1..Len(words_to_trim) : startswith(prompt, words_to_trim[i])
    THEN LET i == CHOOSE k \in 1..Len(words_to_trim) :
                      /\ startswith(prompt, words_to_trim[k])
                      /\ \A j \in 1..(k - 1) : ~startswith(prompt, words_to_trim[j])
         IN  strip(SubSeq(prompt, Len(words_to_trim[i]) + 1, Len(prompt)))
    ELSE prompt

NeedsNoun_VerbOnly(text) == TRUE

\* any(noun in message_text for noun in image_nouns) (line 118)
NeedsNoun(text) == AnyIn(image_nouns, text)

\* slack_service.py:106-138
is_image_generation_request(message_text) ==
    LET text == lower(message_text)
    IN  IF AnyIn(image_generation_verbs, text) /\ NeedsNoun(text)
        THEN [is_request |-> TRUE,
              prompt |-> TrimFiller(strip(AfterFirst(text,
                                        FirstIn(image_generation_verbs, text))))]
        ELSE [is_request |-> FALSE, prompt |-> NoneValue]

url_punctuation == {".", ",", ":", ";", ")", "]", "}"}

\* slack_service.py:141-165
is_web_summarization_request(message_text) ==
    LET text == lower(message_text)
        has_summarize_keyword == AnyIn(summarize_keywords, text)
        has_web_keyword == AnyIn(web_keywords, text)
        has_url == AnyIn(url_schemes, text)
        words == split(text)
        IsUrl(w) == \E i \in 1..Len(url_schemes) : startswith(w, url_schemes[i])
        found == \E i \in 1..Len(words) : IsUrl(words[i])
        url == words[CHOOSE k \in 1..Len(words) :
                         IsUrl(words[k]) /\ \A j \in 1..(k - 1) : ~IsUrl(words[j])]
    IN  IF /\ \/ has_summarize_keyword /\ has_url
              \/ has_summarize_keyword /\ has_web_keyword /\ has_url
           /\ found
        THEN [is_request |-> TRUE,
              url |-> IF url[Len(url)] \in url_punctuation
                      THEN SubSeq(url, 1, Len(url) - 1)
                      ELSE url]
        ELSE [is_request |-> FALSE, url |-> NoneValue]

\* The messages of section 8 of the specification, and one that asks for an image.
CatMessage ==
    <<"p", "l", "e", "a", "s", "e", " ", "d", "r", "a", "w", " ", "a", " ",
      "c", "a", "t", " ", "w", "e", "a", "r", "i", "n", "g", " ", "a", " ",
      "h", "a", "t">>
CatPrompt ==
    <<"c", "a", "t", " ", "w", "e", "a", "r", "i", "n", "g", " ", "a", " ",
      "h", "a", "t">>
PictureMessage ==
    <<"D", "r", "a", "w", " ", "a", " ", "p", "i", "c", "t", "u", "r", "e",
      " ", "o", "f", " ", "a", " ", "c", "a", "t">>
PicturePrompt ==
    <<"p", "i", "c", "t", "u", "r", "e", " ", "o", "f", " ", "a", " ", "c",
      "a", "t">>
SummarizeMessage ==
    <<"c", "a", "n", " ", "y", "o", "u", " ", "s", "u", "m", "m", "a", "r",
      "i", "z", "e", " ", "h", "t", "t", "p", "s", ":", "/", "/", "e", "x",
      "a", "m", "p", "l", "e", ".", "c", "o", "m", "/", "a", "r", "t", "i",
      "c", "l", "e", " ", "p", "l", "e", "a", "s", "e">>
ArticleUrl ==
    <<"h", "t", "t", "p", "s", ":", "/", "/", "e", "x", "a", "m", "p", "l",
      "e", ".", "c", "o", "m", "/", "a", "r", "t", "i", "c", "l", "e">>

\* ------------------------------------------------------- duplicate detector
Keys(cache) == {cache[i][1] : i \in 1..Len(cache)}

\* current_time - event_ts > CACHE_EXPIRY_SECONDS
IsStale(event, t) == t - ParseFloat(event.ts) > CACHE_EXPIRY_SECONDS

DupPath_Forgetful(cache, event, t) ==
    IF IsStale(event, t) THEN "stale" ELSE "accept"

\* The branch is_duplicate_message takes.
DupPath(cache, event, t) ==
    IF create_message_hash(event) \in Keys(cache) THEN "duplicate"
    ELSE IF IsStale(event, t) THEN "stale"
    ELSE "accept"

Store_Forgotten(cache, h, ts) == cache

\* processed_messages[message_hash] = event.get("ts"), for a key not yet there
Store(cache, h, ts) == Append(cache, <<h, ts>>)

\* The largest timestamp string first.
RECURSIVE InsertSorted_Descending(_, _)
InsertSorted_Descending(sorted, item) ==
    IF sorted = <<>> THEN <<item>>
    ELSE IF StrLe(item[2], Head(sorted)[2])
         THEN <<Head(sorted)>> \o InsertSorted_Descending(Tail(sorted), item)
         ELSE <<item>> \o sorted

\* sorted(..., key=lambda x: x[1]): stable, by the timestamp string
RECURSIVE InsertSorted(_, _)
InsertSorted(sorted, item) ==
    IF sorted = <<>> THEN <<item>>
    ELSE IF StrLe(Head(sorted)[2], item[2])
         THEN <<Head(sorted)>> \o InsertSorted(Tail(sorted), item)
         ELSE <<item>> \o sorted

RECURSIVE SortedItems(_)
SortedItems(cache) ==
    IF cache = <<>> THEN <<>>
    ELSE InsertSorted(SortedItems(SubSeq(cache, 1, Len(cache) - 1)), cache[Len(cache)])

NumToEvict_OffByOne(cache) == Len(cache) - MAX_CACHE_SIZE - 1

\* len(processed_messages) - MAX_CACHE_SIZE
NumToEvict(cache) == Len(cache) - MAX_CACHE_SIZE

\* sorted_keys[:len(processed_messages) - MAX_CACHE_SIZE]
Evicted(cache) ==
    IF Len(cache) > MAX_CACHE_SIZE
    THEN SubSeq(SortedItems(cache), 1, NumToEvict(cache))
    ELSE <<>>

\* processed_messages.pop(key, None) for each of them
Trim(cache) ==
    LET gone == {Evicted(cache)[i][1] : i \in 1..Len(Evicted(cache))}
    IN  SelectSeq(cache, LAMBDA item : item[1] \notin gone)

CacheAfter_StaleCached(cache, event, path) ==
    IF path # "duplicate"
    THEN Trim(Store(cache, create_message_hash(event), event.ts))
    ELSE cache

\* The cache when is_duplicate_message returns.
CacheAfter(cache, event, path) ==
    IF path = "accept"
    THEN Trim(Store(cache, create_message_hash(event), event.ts))
    ELSE cache

EvictedBy(cache, event, path) ==
    IF path = "accept"
    THEN Evicted(Store(cache, create_message_hash(event), event.ts))
    ELSE <<>>

is_duplicate_message(event) ==
    LET path == DupPath(processed_messages, event, now)
        popped == EvictedBy(processed_messages, event, path)
        fresh == ~IsStale(event, now)
        hit == create_message_hash(event) \in {popped[i][1] : i \in 1..Len(popped)}
    IN  /\ processed_messages' = CacheAfter(processed_messages, event, path)
        /\ dup' = [ret |-> path # "accept", path |-> path]
        /\ dup_evicted' = popped
        /\ dup_again' = IF watch = event /\ fresh
                        THEN (IF watch_evicted THEN "evicted" ELSE "live")
                        ELSE "no"
        /\ \/ /\ watch = NoEvent
              /\ fresh
              /\ watch' = event
              /\ watch_evicted' = hit
           \/ /\ watch' = watch
              /\ watch_evicted' = (watch_evicted \/ (watch # NoEvent /\
                    create_message_hash(watch) \in {popped[i][1] : i \in 1..Len(popped)}))
        /\ UNCHANGED <<now, limiter_vars, request_vars, cleanup_vars>>
        /\ UNCHANGED <<pipeline_vars, reference_vars, history_vars, classifier_vars>>

\* The process starts at the instant of the timestamp "10".
StartTime == ParseFloat(<<"1", "0">>)
MaxTime == StartTime + Horizon

Tick ==
    /\ now < MaxTime
    /\ now' = now + 1
    /\ admitted' = [u \in DOMAIN admitted |-> Append(Tail(admitted[u]), 0)]
    /\ UNCHANGED <<dedup_vars, limiter_vars, request_vars, cleanup_vars>>
    /\ UNCHANGED <<pipeline_vars, reference_vars, classifier_vars>>

\* ------------------------------------------------------------ rate limiter
Users == {"U1", "U2"}
Teams == {"T1"}
\* A team_id that `if team_id:` takes as absent (None or "").
NoTeam == ""
NoUser == ""

EmptyDict == [k \in {} |-> 0]

\* A write that is lost.
DictSet_Dropped(d, k, v) == d

\* d[k] = v
DictSet(d, k, v) == [x \in DOMAIN d \cup {k} |-> IF x = k THEN v ELSE d[x]]

\* del d[k]
DictDel(d, k) == [x \in DOMAIN d \ {k} |-> d[x]]

UserReason == "User rate limit exceeded"
TeamReason == "Team rate limit exceeded"
NotLimited == [limited |-> FALSE, reason |-> "", exc |-> ""]
Limited(reason) == [limited |-> TRUE, reason |-> reason, exc |-> ""]
Raised(exc) == [limited |-> FALSE, reason |-> "", exc |-> exc]

RateLimitingOn_Always == TRUE

\* `if not self.enabled` (lines 73 and 194)
RateLimitingOn == enabled

WindowExpired_Closed(t, start, window) == t - start >= window

\* current_time - window_start > timedelta(seconds=window)
WindowExpired(t, start, window) == t - start > window

UserOverLimit_Strict(n) == n > USER_RATE_LIMIT_MAX

\* count >= self.user_max_requests
UserOverLimit(n) == n >= USER_RATE_LIMIT_MAX

TeamOverLimit_Strict(n) == n > TEAM_RATE_LIMIT_MAX

\* team_count >= self.team_max_requests
TeamOverLimit(n) == n >= TEAM_RATE_LIMIT_MAX

ResetWindow_CountZero(t) == [count |-> 0, window_start |-> t]

\* (1, current_time)
ResetWindow(t) == [count |-> 1, window_start |-> t]

Incremented_Restarted(n, start) == [count |-> n + 1, window_start |-> current_time]

\* (count + 1, window_start)
Incremented(n, start) == [count |-> n + 1, window_start |-> start]

HitsAfterUserReject_TeamCounter(uh, th) == <<uh, th + 1>>

\* self.user_limit_hits += 1
HitsAfterUserReject(uh, th) == <<uh + 1, th>>

\* is_rate_limited returns (or raises): the locals die with the frame.
Return(r) ==
    /\ pc' = "returned"
    /\ ret' = r
    /\ current_time' = 0
    /\ count' = 0
    /\ window_start' = 0
    /\ team_count' = 0
    /\ team_window_start' = 0

\* The team check made whether or not the call names a team.
ToTeamCheck_Always ==
    /\ pc' = "t_in"
    /\ UNCHANGED <<current_time, count, window_start, team_count, team_window_start, ret>>

\* The user check has passed: `if team_id:` (line 103).
ToTeamCheck ==
    IF team_id # NoTeam
    THEN /\ pc' = "t_in"
         /\ UNCHANGED <<current_time, count, window_start, team_count,
                        team_window_start, ret>>
    ELSE Return(NotLimited)

\* A request task reaches is_rate_limited(user_id, team_id): lines 73-77.
Begin(u, t) ==
    /\ pc = "idle"
    /\ user_limit_hits + team_limit_hits < MaxHits
    /\ user_id' = u
    /\ team_id' = t
    /\ wrote_team' = FALSE
    /\ IF RateLimitingOn
       THEN /\ pc' = "u_in"
            /\ current_time' = now
            /\ UNCHANGED <<count, window_start, team_count, team_window_start, ret>>
       ELSE Return(NotLimited)
    /\ UNCHANGED <<now, dedup_vars, limiter_vars, passed, team_passed, cleanup_vars>>
    /\ UNCHANGED <<pipeline_vars, reference_vars, history_vars, classifier_vars>>

\* `if user_id in self.user_requests` (line 80), and line 100 when it is not.
UserIn ==
    /\ pc = "u_in"
    /\ IF user_id \in DOMAIN user_requests
       THEN /\ pc' = "u_read"
            /\ UNCHANGED <<user_requests, passed, team_passed, current_time, count,
                           window_start, team_count, team_window_start, ret>>
       ELSE /\ user_requests' = DictSet(user_requests, user_id, ResetWindow(current_time))
            /\ passed' = [passed EXCEPT ![user_id] = 1]
            /\ ToTeamCheck
    /\ UNCHANGED <<now, dedup_vars, enabled, team_requests, user_limit_hits,
                   team_limit_hits, user_id, team_id, wrote_team, team_passed,
                   cleanup_vars>>
    /\ UNCHANGED <<pipeline_vars, reference_vars, history_vars, classifier_vars>>

\* `count, window_start = self.user_requests[user_id]` (line 81)
UserRead ==
    /\ pc = "u_read"
    /\ IF user_id \in DOMAIN user_requests
       THEN /\ pc' = "u_decide"
            /\ count' = user_requests[user_id].count
            /\ window_start' = user_requests[user_id].window_start
            /\ UNCHANGED <<current_time, team_count, team_window_start, ret>>
       ELSE Return(Raised("KeyError"))
    /\ UNCHANGED <<now, dedup_vars, limiter_vars, user_id, team_id, wrote_team, passed,
                   team_passed, cleanup_vars>>
    /\ UNCHANGED <<pipeline_vars, reference_vars, history_vars, classifier_vars>>

\* Lines 84-97.
UserDecide ==
    /\ pc = "u_decide"
    /\ IF WindowExpired(current_time, window_start, USER_RATE_LIMIT_WINDOW)
       THEN /\ user_requests' = DictSet(user_requests, user_id, ResetWindow(current_time))
            /\ passed' = [passed EXCEPT ![user_id] = 1]
            /\ ToTeamCheck
            /\ UNCHANGED <<user_limit_hits, team_limit_hits, wrote_team>>
       ELSE IF UserOverLimit(count)
       THEN /\ user_limit_hits' = HitsAfterUserReject(user_limit_hits, team_limit_hits)[1]
            /\ team_limit_hits' = HitsAfterUserReject(user_limit_hits, team_limit_hits)[2]
            /\ wrote_team' = (wrote_team \/ team_limit_hits' # team_limit_hits)
            /\ Return(Limited(UserReason))
            /\ UNCHANGED <<user_requests, passed, team_passed>>
       ELSE /\ user_requests' = DictSet(user_requests, user_id, Incremented(count, window_start))
            /\ passed' = [passed EXCEPT ![user_id] = @ + 1]
            /\ ToTeamCheck
            /\ UNCHANGED <<user_limit_hits, team_limit_hits, wrote_team>>
    /\ UNCHANGED <<now, dedup_vars, enabled, team_requests, user_id, team_id, team_passed,
                   cleanup_vars>>
    /\ UNCHANGED <<pipeline_vars, reference_vars, history_vars, classifier_vars>>

\* `if team_id in self.team_requests` (line 104), and line 118 when it is not.
TeamIn ==
    /\ pc = "t_in"
    /\ IF team_id \in DOMAIN team_requests
       THEN /\ pc' = "t_read"
            /\ UNCHANGED <<team_requests, wrote_team, team_passed, current_time, count,
                           window_start, team_count, team_window_start, ret>>
       ELSE /\ team_requests' = DictSet(team_requests, team_id, ResetWindow(current_time))
            /\ team_passed' = [team_passed EXCEPT ![team_id] = 1]
            /\ wrote_team' = TRUE
            /\ Return(NotLimited)
    /\ UNCHANGED <<now, dedup_vars, enabled, user_requests, user_limit_hits,
                   team_limit_hits, user_id, team_id, passed, cleanup_vars>>
    /\ UNCHANGED <<pipeline_vars, reference_vars, history_vars, classifier_vars>>

\* `team_count, team_window_start = self.team_requests[team_id]` (line 105)
TeamRead ==
    /\ pc = "t_read"
    /\ IF team_id \in DOMAIN team_requests
       THEN /\ pc' = "t_decide"
            /\ team_count' = team_requests[team_id].count
            /\ team_window_start' = team_requests[team_id].window_start
            /\ UNCHANGED <<current_time, count, window_start, ret>>
       ELSE Return(Raised("KeyError"))
    /\ UNCHANGED <<now, dedup_vars, limiter_vars, user_id, team_id, wrote_team, passed,
                   team_passed, cleanup_vars>>
    /\ UNCHANGED <<pipeline_vars, reference_vars, history_vars, classifier_vars>>

\* Lines 107-116, and the return of line 120.
TeamDecide ==
    /\ pc = "t_decide"
    /\ IF WindowExpired(current_time, team_window_start, TEAM_RATE_LIMIT_WINDOW)
       THEN /\ team_requests' = DictSet(team_requests, team_id, ResetWindow(current_time))
            /\ team_passed' = [team_passed EXCEPT ![team_id] = 1]
            /\ wrote_team' = TRUE
            /\ Return(NotLimited)
            /\ UNCHANGED team_limit_hits
       ELSE IF TeamOverLimit(team_count)
       THEN /\ team_limit_hits' = team_limit_hits + 1
            /\ wrote_team' = TRUE
            /\ Return(Limited(TeamReason))
            /\ UNCHANGED <<team_requests, team_passed>>
       ELSE /\ team_requests' =
                    DictSet(team_requests, team_id, Incremented(team_count, team_window_start))
            /\ team_passed' = [team_passed EXCEPT ![team_id] = @ + 1]
            /\ wrote_team' = TRUE
            /\ Return(NotLimited)
            /\ UNCHANGED team_limit_hits
    /\ UNCHANGED <<now, dedup_vars, enabled, user_requests, user_limit_hits,
                   user_id, team_id, passed, cleanup_vars>>
    /\ UNCHANGED <<pipeline_vars, reference_vars, history_vars, classifier_vars>>

\* slack_events from line 80 to its return: the rest of the handler, which
\* calls the limiter no more than to read it (get_remaining_requests, line 88).
HandlerEnds ==
    /\ pc = "returned"
    /\ pc' = "idle"
    /\ user_id' = NoUser
    /\ team_id' = NoTeam
    /\ ret' = NotLimited
    /\ wrote_team' = FALSE
    /\ UNCHANGED <<now, dedup_vars, limiter_vars, current_time, count, window_start,
                   team_count, team_window_start, passed, team_passed, cleanup_vars>>
    /\ UNCHANGED <<pipeline_vars, reference_vars, history_vars, classifier_vars>>

is_rate_limited ==
    \/ \E u \in Users, t \in Teams \cup {NoTeam} : Begin(u, t)
    \/ UserIn
    \/ UserRead
    \/ UserDecide
    \/ TeamIn
    \/ TeamRead
    \/ TeamDecide

\* ---------------------------------------------------------- cleanup thread
\* The limiter's dicts and counters as one value.
Limiter(ur, tr, uh, th) ==
    [user_requests |-> ur, team_requests |-> tr,
     user_limit_hits |-> uh, team_limit_hits |-> th]

get_stats_WindowsSwapped(L, on) ==
    ("user_limit_hits" :> L.user_limit_hits) @@
    ("team_limit_hits" :> L.team_limit_hits) @@
    ("active_user_windows" :> Cardinality(DOMAIN L.team_requests)) @@
    ("active_team_windows" :> Cardinality(DOMAIN L.user_requests)) @@
    ("enabled" :> on)

\* get_stats() (lines 182-190): the dict it returns, as a function of its keys.
get_stats(L, on) ==
    ("user_limit_hits" :> L.user_limit_hits) @@
    ("team_limit_hits" :> L.team_limit_hits) @@
    ("active_user_windows" :> Cardinality(DOMAIN L.user_requests)) @@
    ("active_team_windows" :> Cardinality(DOMAIN L.team_requests)) @@
    ("enabled" :> on)

\* A dict iterator raises RuntimeError ("dictionary changed size during
\* iteration") from next() when the dict's size is no longer the size it saw at
\* its start; it yields each key once, here in any order.
IterFails(d) == Cardinality(DOMAIN d) # iter_used

\* A loop that an exception ends: the thread is gone.
CleanupRaises_Dies(exc) ==
    /\ cl_pc' = "dead"
    /\ cl_exc' = exc
    /\ cl_time' = 0
    /\ iter_used' = 0
    /\ visited' = {}
    /\ expired_users' = {}
    /\ expired_teams' = {}
    /\ todo' = {}
    /\ deleted_live' = FALSE
    /\ UNCHANGED cl_ret

\* The `except Exception` of rate_limit_cleanup (main.py:46): log, loop, sleep.
CleanupRaises(exc) ==
    /\ cl_pc' = "except"
    /\ cl_exc' = exc
    /\ cl_time' = 0
    /\ iter_used' = 0
    /\ visited' = {}
    /\ expired_users' = {}
    /\ expired_teams' = {}
    /\ todo' = {}
    /\ deleted_live' = FALSE
    /\ UNCHANGED cl_ret

\* time.sleep(300) returns; clear_expired_entries lines 194-201.
CleanupBegin ==
    /\ cl_pc = "sleep"
    /\ IF RateLimitingOn
       THEN /\ cl_pc' = "scan_users"
            /\ cl_time' = now
            /\ iter_used' = Cardinality(DOMAIN user_requests)
       ELSE /\ cl_pc' = "stats"
            /\ UNCHANGED <<cl_time, iter_used>>
    /\ UNCHANGED <<visited, expired_users, expired_teams, todo, cl_ret, cl_exc,
                   deleted_live>>
    /\ UNCHANGED <<now, dedup_vars, limiter_vars, request_vars>>
    /\ UNCHANGED <<stats, pipeline_vars, reference_vars, history_vars, classifier_vars>>

\* One turn of `for user_id, (_, window_start) in self.user_requests.items()`
\* (lines 201-205).
ScanUsers ==
    /\ cl_pc = "scan_users"
    /\ IF IterFails(user_requests)
       THEN CleanupRaises("RuntimeError")
       ELSE IF visited = DOMAIN user_requests
       THEN /\ cl_pc' = "del_users"
            /\ todo' = expired_users
            /\ visited' = {}
            /\ iter_used' = 0
            /\ UNCHANGED <<cl_time, expired_users, expired_teams, cl_ret, cl_exc,
                           deleted_live>>
       ELSE \E u \in DOMAIN user_requests \ visited :
            /\ visited' = visited \cup {u}
            /\ expired_users' =
                  IF WindowExpired(cl_time, user_requests[u].window_start,
                                   USER_RATE_LIMIT_WINDOW)
                  THEN expired_users \cup {u}
                  ELSE expired_users
            /\ UNCHANGED <<cl_pc, cl_time, iter_used, expired_teams, todo, cl_ret,
                           cl_exc, deleted_live>>
    /\ UNCHANGED <<now, dedup_vars, limiter_vars, request_vars>>
    /\ UNCHANGED <<stats, pipeline_vars, reference_vars, history_vars, classifier_vars>>

\* One turn of `for user_id in expired_users: del self.user_requests[user_id]`
\* (lines 207-208), then lines 211-212.
DelUsers ==
    /\ cl_pc = "del_users"
    /\ IF todo = {}
       THEN /\ cl_pc' = "scan_teams"
            /\ iter_used' = Cardinality(DOMAIN team_requests)
            /\ visited' = {}
            /\ deleted_live' = FALSE
            /\ UNCHANGED <<user_requests, cl_time, expired_users, expired_teams, todo,
                           cl_ret, cl_exc>>
       ELSE \E u \in todo :
            /\ todo' = todo \ {u}
            /\ IF u \in DOMAIN user_requests
               THEN /\ user_requests' = DictDel(user_requests, u)
                    /\ deleted_live' =
                          ~WindowExpired(now, user_requests[u].window_start,
                                         USER_RATE_LIMIT_WINDOW)
                    /\ UNCHANGED <<cl_pc, cl_time, iter_used, visited, expired_users,
                                   expired_teams, cl_ret, cl_exc>>
               ELSE /\ CleanupRaises("KeyError")
                    /\ UNCHANGED user_requests
    /\ UNCHANGED <<now, dedup_vars, enabled, team_requests, user_limit_hits,
                   team_limit_hits, request_vars>>
    /\ UNCHANGED <<stats, pipeline_vars, reference_vars, history_vars, classifier_vars>>

\* One turn of `for team_id, (_, window_start) in self.team_requests.items()`
\* (lines 212-216).
ScanTeams ==
    /\ cl_pc = "scan_teams"
    /\ IF IterFails(team_requests)
       THEN CleanupRaises("RuntimeError")
       ELSE IF visited = DOMAIN team_requests
       THEN /\ cl_pc' = "del_teams"
            /\ todo' = expired_teams
            /\ visited' = {}
            /\ iter_used' = 0
            /\ UNCHANGED <<cl_time, expired_users, expired_teams, cl_ret, cl_exc,
                           deleted_live>>
       ELSE \E t \in DOMAIN team_requests \ visited :
            /\ visited' = visited \cup {t}
            /\ expired_teams' =
                  IF WindowExpired(cl_time, team_requests[t].window_start,
                                   TEAM_RATE_LIMIT_WINDOW)
                  THEN expired_teams \cup {t}
                  ELSE expired_teams
            /\ UNCHANGED <<cl_pc, cl_time, iter_used, expired_users, todo, cl_ret,
                           cl_exc, deleted_live>>
    /\ UNCHANGED <<now, dedup_vars, limiter_vars, request_vars>>
    /\ UNCHANGED <<stats, pipeline_vars, reference_vars, history_vars, classifier_vars>>

\* One turn of `for team_id in expired_teams: del self.team_requests[team_id]`
\* (lines 218-219), then the return of line 221 and main.py:38-45.
DelTeams ==
    /\ cl_pc = "del_teams"
    /\ IF todo = {}
       THEN /\ cl_pc' = "stats"
            /\ cl_ret' = <<Cardinality(expired_users), Cardinality(expired_teams)>>
            /\ cl_time' = 0
            /\ expired_users' = {}
            /\ expired_teams' = {}
            /\ deleted_live' = FALSE
            /\ UNCHANGED <<team_requests, iter_used, visited, todo, cl_exc>>
       ELSE \E t \in todo :
            /\ todo' = todo \ {t}
            /\ IF t \in DOMAIN team_requests
               THEN /\ team_requests' = DictDel(team_requests, t)
                    /\ deleted_live' =
                          ~WindowExpired(now, team_requests[t].window_start,
                                         TEAM_RATE_LIMIT_WINDOW)
                    /\ UNCHANGED <<cl_pc, cl_time, iter_used, visited, expired_users,
                                   expired_teams, cl_ret, cl_exc>>
               ELSE /\ CleanupRaises("KeyError")
                    /\ UNCHANGED team_requests
    /\ UNCHANGED <<now, dedup_vars, enabled, user_requests, user_limit_hits,
                   team_limit_hits, request_vars>>
    /\ UNCHANGED <<stats, pipeline_vars, reference_vars, history_vars, classifier_vars>>

\* main.py:38-44 after clear_expired_entries returned: the counts are logged,
\* then `stats = user_rate_limiter.get_stats()`.
CleanupStats ==
    /\ cl_pc = "stats"
    /\ cl_pc' = "log"
    /\ stats' = get_stats(Limiter(user_requests, team_requests, user_limit_hits,
                                  team_limit_hits), enabled)
    /\ UNCHANGED <<cl_time, iter_used, visited, expired_users, expired_teams, todo,
                   cl_ret, cl_exc, deleted_live>>
    /\ UNCHANGED <<now, dedup_vars, limiter_vars, request_vars>>
    /\ UNCHANGED <<pipeline_vars, reference_vars, history_vars, classifier_vars>>

\* main.py:45 after get_stats returned, or main.py:47 after the cycle raised:
\* log, then the next turn of `while True`.
CleanupLogs ==
    /\ cl_pc \in {"log", "except"}
    /\ cl_pc' = "sleep"
    /\ cl_ret' = <<0, 0>>
    /\ cl_exc' = ""
    /\ stats' = EmptyDict
    /\ UNCHANGED <<cl_time, iter_used, visited, expired_users, expired_teams, todo,
                   deleted_live>>
    /\ UNCHANGED <<now, dedup_vars, limiter_vars, request_vars>>
    /\ UNCHANGED <<pipeline_vars, reference_vars, history_vars, classifier_vars>>

rate_limit_cleanup ==
    \/ CleanupBegin
    \/ CleanupStats
    \/ CleanupLogs
    \/ ScanUsers
    \/ DelUsers
    \/ ScanTeams
    \/ DelTeams

\* ------------------------------------------- the limiter, one call at a time
\* Lines 103-120 run on the limiter L.
TeamCheck(L, t, time) ==
    IF t = NoTeam
    THEN [ret |-> NotLimited, after |-> L]
    ELSE IF t \notin DOMAIN L.team_requests
    THEN [ret |-> NotLimited,
          after |-> [L EXCEPT !.team_requests = DictSet(@, t, ResetWindow(time))]]
    ELSE LET w == L.team_requests[t]
         IN  IF WindowExpired(time, w.window_start, TEAM_RATE_LIMIT_WINDOW)
             THEN [ret |-> NotLimited,
                   after |-> [L EXCEPT !.team_requests = DictSet(@, t, ResetWindow(time))]]
             ELSE IF TeamOverLimit(w.count)
             THEN [ret |-> Limited(TeamReason),
                   after |-> [L EXCEPT !.team_limit_hits = @ + 1]]
             ELSE [ret |-> NotLimited,
                   after |-> [L EXCEPT !.team_requests =
                                 DictSet(@, t, Incremented(w.count, w.window_start))]]

ChargeUser_Skipped(L, u, window) == L

\* self.user_requests[user_id] = window (lines 87, 97 and 100), which comes
\* before the team check of lines 103-118.
ChargeUser(L, u, window) == [L EXCEPT !.user_requests = DictSet(@, u, window)]

\* is_rate_limited(u, t) run from line 73 to its return at the time `time`,
\* with no step of another thread in between: what it returns, and the limiter
\* it leaves.
RateLimit(L, on, u, t, time) ==
    IF ~on
    THEN [ret |-> NotLimited, after |-> L]
    ELSE IF u \notin DOMAIN L.user_requests
    THEN TeamCheck(ChargeUser(L, u, ResetWindow(time)), t, time)
    ELSE LET w == L.user_requests[u]
         IN  IF WindowExpired(time, w.window_start, USER_RATE_LIMIT_WINDOW)
             THEN TeamCheck(ChargeUser(L, u, ResetWindow(time)), t, time)
             ELSE IF UserOverLimit(w.count)
             THEN [ret |-> Limited(UserReason),
                   after |-> [L EXCEPT
                       !.user_limit_hits =
                           HitsAfterUserReject(L.user_limit_hits, L.team_limit_hits)[1],
                       !.team_limit_hits =
                           HitsAfterUserReject(L.user_limit_hits, L.team_limit_hits)[2]]]
             ELSE TeamCheck(ChargeUser(L, u, Incremented(w.count, w.window_start)),
                            t, time)

\* max(0, n)
Max0(n) == IF n > 0 THEN n ELSE 0

WindowActive_Strict(t, start, window) == t - start < window

\* current_time - window_start <= timedelta(seconds=window) (lines 155, 170)
WindowActive(t, start, window) == t - start <= window

\* get_remaining_requests(u, t) (lines 136-180): the dict it returns, as a
\* function of its keys.
get_remaining_requests(L, on, u, t, time) ==
    LET maxima == ("user_remaining" :> USER_RATE_LIMIT_MAX) @@
                  ("team_remaining" :> IF t # NoTeam THEN TEAM_RATE_LIMIT_MAX
                                       ELSE NoneValue)
        active_user ==
            /\ u \in DOMAIN L.user_requests
            /\ WindowActive(time, L.user_requests[u].window_start, USER_RATE_LIMIT_WINDOW)
        active_team ==
            /\ t # NoTeam
            /\ t \in DOMAIN L.team_requests
            /\ WindowActive(time, L.team_requests[t].window_start, TEAM_RATE_LIMIT_WINDOW)
        of_user ==
            IF active_user
            THEN ("user_remaining" :> Max0(USER_RATE_LIMIT_MAX - L.user_requests[u].count)) @@
                 ("user_window_reset_seconds" :>
                      Max0(USER_RATE_LIMIT_WINDOW - (time - L.user_requests[u].window_start)))
            ELSE EmptyDict
        of_team ==
            IF active_team
            THEN ("team_remaining" :> Max0(TEAM_RATE_LIMIT_MAX - L.team_requests[t].count)) @@
                 ("team_window_reset_seconds" :>
                      Max0(TEAM_RATE_LIMIT_WINDOW - (time - L.team_requests[t].window_start)))
            ELSE EmptyDict
    IN  IF ~on
        THEN maxima @@ ("user_window_reset_seconds" :> 0) @@
                       ("team_window_reset_seconds" :> 0)
        ELSE of_user @@ of_team @@ maxima

\* d.get(key, default)
DictGet(d, key, default) == IF key \in DOMAIN d THEN d[key] ELSE default

ExpiredKeys_All(d, time, window) == DOMAIN d

\* The keys the scan of clear_expired_entries lists (lines 200-205, 211-216).
ExpiredKeys(d, time, window) ==
    {k \in DOMAIN d : WindowExpired(time, d[k].window_start, window)}

\* The dict after `del d[k]` for each of the keys.
Without(d, keys) == [k \in DOMAIN d \ keys |-> d[k]]

ClearedCounts_Swapped(users, teams) == <<Cardinality(teams), Cardinality(users)>>

\* return len(expired_users), len(expired_teams)
ClearedCounts(users, teams) == <<Cardinality(users), Cardinality(teams)>>

\* The history after a call for the user u that returned r.
Admitted(u, r) ==
    IF RateLimitingOn /\ ~r.limited
    THEN [admitted EXCEPT ![u][Len(admitted[u])] = @ + 1]
    ELSE admitted

\* The total of a sequence of counts: Sum(admitted[u]) is the number of calls
\* admitted for u within the last USER_RATE_LIMIT_WINDOW, both ends of the
\* interval included.
RECURSIVE Sum(_)
Sum(counts) == IF counts = <<>> THEN 0 ELSE Head(counts) + Sum(Tail(counts))

\* A call of is_rate_limited(u, t) with no step of the cleanup thread inside
\* it, made on the limiter and on the reference limiter, which no cleanup
\* ever touches.
AdmitCall(u, t) ==
    LET L == Limiter(user_requests, team_requests, user_limit_hits, team_limit_hits)
        R == Limiter(ref_user_requests, ref_team_requests, 0, 0)
        r == RateLimit(L, RateLimitingOn, u, t, now)
        s == RateLimit(R, RateLimitingOn, u, t, now)
    IN  /\ pc = "idle"
        /\ user_limit_hits + team_limit_hits < MaxHits
        /\ user_requests' = r.after.user_requests
        /\ team_requests' = r.after.team_requests
        /\ user_limit_hits' = r.after.user_limit_hits
        /\ team_limit_hits' = r.after.team_limit_hits
        /\ ref_user_requests' = s.after.user_requests
        /\ ref_team_requests' = s.after.team_requests
        /\ pc' = "returned"
        /\ user_id' = u
        /\ team_id' = t
        /\ ret' = r.ret
        /\ ref_ret' = s.ret
        /\ admitted' = Admitted(u, r.ret)
        /\ UNCHANGED <<now, dedup_vars, enabled, current_time, count, window_start,
                       team_count, team_window_start, wrote_team, passed, team_passed,
                       cleanup_vars, pipeline_vars, classifier_vars>>

\* A call of is_rate_limited(u, t) (lines 57-120) between two steps of the
\* cleanup thread.
RequestCall(u, t) ==
    LET L == Limiter(user_requests, team_requests, user_limit_hits, team_limit_hits)
        r == RateLimit(L, RateLimitingOn, u, t, now)
    IN  /\ pc = "idle"
        /\ user_limit_hits + team_limit_hits < MaxHits
        /\ user_requests' = r.after.user_requests
        /\ team_requests' = r.after.team_requests
        /\ user_limit_hits' = r.after.user_limit_hits
        /\ team_limit_hits' = r.after.team_limit_hits
        /\ pc' = "returned"
        /\ user_id' = u
        /\ team_id' = t
        /\ ret' = r.ret
        /\ UNCHANGED <<now, dedup_vars, enabled, current_time, count, window_start,
                       team_count, team_window_start, wrote_team, passed, team_passed,
                       cleanup_vars,
                       pipeline_vars, reference_vars, history_vars, classifier_vars>>

\* The caller takes the result: the next request may come.
AdmitReturns ==
    /\ pc = "returned"
    /\ pc' = "idle"
    /\ user_id' = NoUser
    /\ team_id' = NoTeam
    /\ ret' = NotLimited
    /\ ref_ret' = NotLimited
    /\ UNCHANGED <<now, dedup_vars, limiter_vars, current_time, count, window_start,
                   team_count, team_window_start, wrote_team, passed, team_passed,
                       cleanup_vars,
                   pipeline_vars, ref_user_requests, ref_team_requests, history_vars, classifier_vars>>

AfterRemaining_ExpiredDropped(L, on, u, t, time) ==
    [L EXCEPT !.user_requests = Without(@, ExpiredKeys(@, time, USER_RATE_LIMIT_WINDOW))]

\* The limiter after get_remaining_requests(u, t): lines 136-180 assign the
\* locals current_time, result, count, window_start, team_count,
\* team_window_start and seconds_elapsed, and no attribute of self.
AfterRemaining(L, on, u, t, time) == L

\* A call of get_remaining_requests(u, t) (lines 122-180) by any caller, at
\* any moment between two requests.
RemainingCall(u, t) ==
    LET L == Limiter(user_requests, team_requests, user_limit_hits, team_limit_hits)
        after == AfterRemaining(L, RateLimitingOn, u, t, now)
    IN  /\ pc = "idle"
        /\ pc' = "reading"
        /\ user_id' = u
        /\ team_id' = t
        /\ remaining' = get_remaining_requests(L, RateLimitingOn, u, t, now)
        /\ user_requests' = after.user_requests
        /\ team_requests' = after.team_requests
        /\ user_limit_hits' = after.user_limit_hits
        /\ team_limit_hits' = after.team_limit_hits
        /\ UNCHANGED <<now, dedup_vars, enabled, current_time, count, window_start,
                       team_count, team_window_start, ret, wrote_team, passed,
                       team_passed, cleanup_vars, h_pc, h_data, status, calls, intent,
                       reset_seconds, failed, failed_how, redelivery, reference_vars,
                       history_vars, classifier_vars>>

\* The caller takes the report.
RemainingReturns ==
    /\ pc = "reading"
    /\ pc' = "idle"
    /\ user_id' = NoUser
    /\ team_id' = NoTeam
    /\ remaining' = EmptyDict
    /\ UNCHANGED <<now, dedup_vars, limiter_vars, current_time, count, window_start,
                   team_count, team_window_start, ret, wrote_team, passed,
                   team_passed, cleanup_vars, h_pc, h_data, status, calls, intent,
                   reset_seconds, failed, failed_how, redelivery, reference_vars,
                   history_vars, classifier_vars>>

\* clear_expired_entries (lines 192-221) run from its first line to its last
\* with no request in between, when time.sleep(300) returns (main.py:35-36).
clear_expired_entries ==
    LET users == ExpiredKeys(user_requests, now, USER_RATE_LIMIT_WINDOW)
        teams == ExpiredKeys(team_requests, now, TEAM_RATE_LIMIT_WINDOW)
    IN  /\ cl_pc = "sleep"
        /\ cl_pc' = "stats"
        /\ IF RateLimitingOn
           THEN /\ user_requests' = Without(user_requests, users)
                /\ team_requests' = Without(team_requests, teams)
                /\ cl_ret' = ClearedCounts(users, teams)
           ELSE /\ cl_ret' = <<0, 0>>
                /\ UNCHANGED <<user_requests, team_requests>>
        /\ UNCHANGED <<now, dedup_vars, enabled, user_limit_hits, team_limit_hits,
                       request_vars, cl_time, iter_used, visited, expired_users,
                       expired_teams, todo, cl_exc, stats, deleted_live, pipeline_vars,
                       reference_vars, history_vars, classifier_vars>>

\* ------------------------------------------------------------ slack_events
\* The configuration names one channel; the bot's own user id comes from
\* auth_test at startup (main.py).
ALLOWED_CHANNEL == "C1"
bot_user_id == "UBOT"

\* A text of blanks only.
Blank == <<" ", " ">>

\* The messages users write.
Messages == {CatMessage, PictureMessage, SummarizeMessage}

\* The ts of a thread's parent message.
ParentTs == <<"8">>

\* A message event of a user in the allowed channel, as Slack delivers it.
UserMessage(text, ts, thread_ts) ==
    [kind |-> "event_callback", type |-> "message", channel |-> ALLOWED_CHANNEL,
     channel_type |-> "channel", bot_id |-> "", user |-> "U1", subtype |-> "",
     text |-> text, files |-> <<>>, ts |-> ts, thread_ts |-> thread_ts,
     team_id |-> "T1"]

NoData == UserMessage(<<>>, <<>>, <<>>)

\* What Slack posts to /slack/events: the messages of users, an event
\* without text, a reply of blanks only, an event whose ts is no number, and
\* for each filter of lines 28-67 a request that it catches.
Deliveries ==
    LET plain == UserMessage(CatMessage, <<"1", "0">>, <<"1", "0">>)
    IN  {UserMessage(text, ts, thread_ts) :
             text \in Messages, ts \in Timestamps, thread_ts \in {ParentTs}} \cup
        {UserMessage(text, ts, ts) : text \in Messages, ts \in Timestamps} \cup
        { UserMessage(<<>>, <<"1", "0">>, <<"1", "0">>),
          UserMessage(Blank, <<"1", "1">>, ParentTs),
          UserMessage(CatMessage, <<"x">>, <<"x">>) } \cup
        { [plain EXCEPT !.kind = "url_verification"],
          [plain EXCEPT !.type = "app_mention"],
          [plain EXCEPT !.type = "reaction_added"],
          [plain EXCEPT !.channel = "C2"],
          [plain EXCEPT !.channel_type = "im"],
          [plain EXCEPT !.bot_id = "B1"],
          [plain EXCEPT !.user = bot_user_id],
          [plain EXCEPT !.subtype = "bot_message"],
          [plain EXCEPT !.subtype = "message_changed"] }

\* data["event"], as far as create_message_hash reads it.
EventOf(data) == [text |-> data.text, files |-> data.files, ts |-> data.ts]

Filter_WithoutMessageChanged(data) ==
    IF data.kind = "url_verification" THEN "challenge"
    ELSE IF data.type \notin {"message", "app_mention"} THEN "ignored_event_type"
    ELSE IF ALLOWED_CHANNEL # "" /\ data.channel # ALLOWED_CHANNEL THEN "ignored_channel"
    ELSE IF data.channel_type = "im" THEN "ignored_dm"
    ELSE IF \/ data.bot_id # ""
            \/ data.user = bot_user_id
            \/ data.subtype = "bot_message" THEN "ignored_bot_message"
    ELSE ""

\* Lines 28-67: the status the filters return, "" when the event passes them.
Filter(data) ==
    IF data.kind = "url_verification" THEN "challenge"
    ELSE IF data.type \notin {"message", "app_mention"} THEN "ignored_event_type"
    ELSE IF ALLOWED_CHANNEL # "" /\ data.channel # ALLOWED_CHANNEL THEN "ignored_channel"
    ELSE IF data.channel_type = "im" THEN "ignored_dm"
    ELSE IF \/ data.bot_id # ""
            \/ data.user = bot_user_id
            \/ data.subtype = "bot_message" THEN "ignored_bot_message"
    ELSE IF data.subtype = "message_changed" THEN "ignored_message_changed"
    ELSE ""

Rejected_OnlyStale(path) == path = "stale"

Rejected_OnlyDuplicate(path) == path = "duplicate"

\* `if is_duplicate_message(event):` (line 70): it returns True on both of its
\* rejecting branches.
Rejected(path) == path # "accept"

\* `if not message_text.strip()` of the lowered text (lines 101-104)
EmptyText(text) == strip(lower(text)) = <<>>

NoIntent == [label |-> "", prompt |-> <<>>]

Route_AnyPrompt(message_text) ==
    LET image == is_image_generation_request(message_text)
    IN  IF image.is_request
        THEN [label |-> "image_generation", prompt |-> image.prompt]
        ELSE [label |-> "plain_conversation", prompt |-> <<>>]

\* Lines 111-113 and 192: the branch the handler takes for the lowered text.
\* is_web_summarization_request is neither imported nor called by slack.py.
Route(message_text) ==
    LET image == is_image_generation_request(message_text)
    IN  IF image.is_request /\ image.prompt \notin {NoneValue, <<>>}
        THEN [label |-> "image_generation", prompt |-> image.prompt]
        ELSE [label |-> "plain_conversation", prompt |-> <<>>]

\* The words a message text is made of here: two verbs of the verb list
\* ("make" comes before "draw" in it), a noun of the noun list, a filler word
\* and the blank.
Words ==
    {<<"D", "r", "a", "w">>, <<"m", "a", "k", "e">>, <<"a", "r", "t">>, <<"a">>, <<" ">>}

\* The text the words spell.
RECURSIVE Text(_)
Text(words) == IF words = <<>> THEN <<>> ELSE Head(words) \o Text(Tail(words))

NoVerdict == [image |-> [is_request |-> FALSE, prompt |-> NoneValue], intent |-> NoIntent]

\* A user writes the next word of a message.
Type(word) ==
    /\ Len(typed) < MaxWords
    /\ typed' = Append(typed, word)
    /\ verdict' = NoVerdict
    /\ UNCHANGED <<now, dedup_vars, limiter_vars, request_vars, cleanup_vars,
                   pipeline_vars, reference_vars, history_vars>>

\* The message arrives: routes/slack.py:101 lowers the text, line 104 lets a
\* text that is not blank through, line 111 calls is_image_generation_request
\* on it and line 113 chooses the branch.
Classify ==
    /\ verdict = NoVerdict
    /\ ~EmptyText(Text(typed))
    /\ verdict' = [image |-> is_image_generation_request(lower(Text(typed))),
                   intent |-> Route(lower(Text(typed)))]
    /\ UNCHANGED typed
    /\ UNCHANGED <<now, dedup_vars, limiter_vars, request_vars, cleanup_vars,
                   pipeline_vars, reference_vars, history_vars>>

\* The message is answered; the next one begins.
Clear ==
    /\ verdict # NoVerdict
    /\ typed' = <<>>
    /\ verdict' = NoVerdict
    /\ UNCHANGED <<now, dedup_vars, limiter_vars, request_vars, cleanup_vars,
                   pipeline_vars, reference_vars, history_vars>>

\* The first call site of the branch: process_current_message (line 192)
\* calls nothing for an event without files, and get_thread_history is called
\* for a reply in a thread only (line 196).
FirstCallSite(label, data) ==
    IF label = "image_generation" THEN "img_post"
    ELSE IF data.thread_ts # <<>> /\ data.thread_ts # data.ts THEN "conv_history"
    ELSE "conv_ai"

\* The call made at each call site of lines 92-210.
CallAt(site) ==
    CASE site = "notify" -> "chat_postEphemeral"
      [] site = "img_post" -> "chat_postMessage"
      [] site = "img_generate" -> "generate_image"
      [] site = "img_download" -> "download_image"
      [] site = "img_upload" -> "upload_file_to_slack"
      [] site = "img_delete" -> "chat_delete"
      [] site = "img_update" -> "chat_update"
      [] site = "conv_history" -> "get_thread_history"
      [] site = "conv_ai" -> "get_openai_response"
      [] site = "conv_post" -> "chat_postMessage"

CallSites == {"notify", "img_post", "img_generate", "img_download", "img_upload",
              "img_delete", "img_update", "conv_history", "conv_ai", "conv_post"}

\* How a call can end for the handler: "ok", "none" (the callee caught its
\* failure and returned None, False, [] or an apology) or "raise".  At
\* img_upload "raise" is a failure of the temporary file around the upload
\* (lines 138-154).
Outcomes(site) ==
    CASE site \in {"notify", "img_post", "img_update", "conv_post"} -> {"ok", "raise"}
      [] site \in {"img_generate", "img_download", "conv_history", "conv_ai"} ->
             {"ok", "none"}
      [] site = "img_upload" -> {"ok", "none", "raise"}
      [] site = "img_delete" -> {"ok", "raise"}

ErrorStatus_Reraised == "raised"

\* `except Exception as e: ... return {"status": "error", ...}` (lines 218-220)
ErrorStatus == "error"

\* Where the handler goes after the call: a call site, or the status it
\* returns.  An exception nothing catches before line 218 returns "error".
AfterCall(site, outcome) ==
    CASE site = "notify" -> IF outcome = "ok" THEN "rate_limited" ELSE ErrorStatus
      [] site = "img_post" -> IF outcome = "ok" THEN "img_generate" ELSE ErrorStatus
      [] site = "img_generate" -> IF outcome = "ok" THEN "img_download" ELSE "img_update"
      [] site = "img_download" -> IF outcome = "ok" THEN "img_upload" ELSE "img_update"
      [] site = "img_upload" -> IF outcome = "ok" THEN "img_delete"
                                ELSE IF outcome = "none" THEN "ok_image_generation"
                                ELSE "img_update"
      [] site = "img_delete" -> "ok_image_generation"
      [] site = "img_update" -> IF outcome = "ok" THEN "ok_image_generation" ELSE ErrorStatus
      [] site = "conv_history" -> "conv_ai"
      [] site = "conv_ai" -> "conv_post"
      [] site = "conv_post" -> IF outcome = "ok" THEN "ok" ELSE ErrorStatus

NoticeCalls_Twice(made, site) == made \o <<CallAt(site), CallAt(site)>>

\* The calls made so far, the one at `site` included.
NoticeCalls(made, site) == Append(made, CallAt(site))

\* remaining.get("user_window_reset_seconds", 60) (line 89)
DefaultResetSeconds == 60

\* The handler returns: its frame is gone.
Finish(s) ==
    /\ h_pc' = "returned"
    /\ status' = s
    /\ h_data' = NoData
    /\ intent' = NoIntent
    /\ remaining' = EmptyDict
    /\ reset_seconds' = 0

\* Lines 25-72: a request arrives and runs to the end of is_duplicate_message;
\* float(event_ts) of helpers.py:31 raises for a ts that is no number, which
\* line 218 catches.  Once the hit counters total MaxHits only requests that the
\* filters catch or whose event is in the cache, no number or stale arrive.
Receive(data) ==
    LET event == EventOf(data)
        path == DupPath(processed_messages, event, now)
    IN  /\ h_pc = "idle"
        /\ \/ user_limit_hits + team_limit_hits < MaxHits
           \/ Filter(data) # ""
           \/ create_message_hash(event) \in Keys(processed_messages)
           \/ FloatRaises(event.ts)
           \/ ~FloatRaises(event.ts) /\ IsStale(event, now)
        /\ calls' = <<>>
        /\ IF Filter(data) # ""
           THEN /\ Finish(Filter(data))
                /\ redelivery' = FALSE
                /\ UNCHANGED <<processed_messages, dup, dup_evicted>>
           ELSE IF /\ create_message_hash(event) \notin Keys(processed_messages)
                   /\ FloatRaises(event.ts)
           THEN /\ Finish(ErrorStatus)
                /\ redelivery' = FALSE
                /\ UNCHANGED <<processed_messages, dup, dup_evicted>>
           ELSE /\ processed_messages' = CacheAfter(processed_messages, event, path)
                /\ dup' = [ret |-> path # "accept", path |-> path]
                /\ dup_evicted' = EvictedBy(processed_messages, event, path)
                /\ redelivery' = (event = failed)
                /\ IF Rejected(path)
                   THEN Finish("ignored_duplicate")
                   ELSE /\ h_pc' = "limit"
                        /\ h_data' = data
                        /\ UNCHANGED <<status, intent, remaining, reset_seconds>>
        /\ UNCHANGED <<now, watch, watch_evicted, dup_again, limiter_vars, request_vars,
                       cleanup_vars, failed, failed_how, reference_vars, history_vars,
                       classifier_vars>>

\* Lines 75-113: is_rate_limited, then for an admitted event the text and the
\* branch.
CheckRate ==
    LET L == Limiter(user_requests, team_requests, user_limit_hits, team_limit_hits)
        r == RateLimit(L, RateLimitingOn, h_data.user, h_data.team_id, now)
        message_text == lower(h_data.text)
    IN  /\ h_pc = "limit"
        /\ user_requests' = r.after.user_requests
        /\ team_requests' = r.after.team_requests
        /\ user_limit_hits' = r.after.user_limit_hits
        /\ team_limit_hits' = r.after.team_limit_hits
        /\ IF r.ret.limited
           THEN /\ h_pc' = "remaining"
                /\ UNCHANGED <<h_data, status, intent, remaining, reset_seconds>>
           ELSE IF EmptyText(message_text)
           THEN Finish("ignored_empty_message")
           ELSE /\ intent' = Route(message_text)
                /\ h_pc' = FirstCallSite(intent'.label, h_data)
                /\ UNCHANGED <<h_data, status, remaining, reset_seconds>>
        /\ UNCHANGED <<now, dedup_vars, enabled, request_vars, cleanup_vars, calls,
                       failed, failed_how, redelivery, reference_vars, history_vars,
                       classifier_vars>>

\* Lines 88-89.
Remaining ==
    LET L == Limiter(user_requests, team_requests, user_limit_hits, team_limit_hits)
    IN  /\ h_pc = "remaining"
        /\ h_pc' = "notify"
        /\ remaining' = get_remaining_requests(L, RateLimitingOn, h_data.user,
                                               h_data.team_id, now)
        /\ reset_seconds' = DictGet(remaining', "user_window_reset_seconds",
                                    DefaultResetSeconds)
        /\ UNCHANGED <<now, dedup_vars, limiter_vars, request_vars, cleanup_vars,
                       h_data, status, calls, intent, failed, failed_how, redelivery,
                       reference_vars, history_vars, classifier_vars>>

\* One call to the chat platform, to the AI backend or for a download, and
\* the statements up to the next one or to the return.
ExternalCall(outcome) ==
    /\ h_pc \in CallSites
    /\ outcome \in Outcomes(h_pc)
    /\ calls' = NoticeCalls(calls, h_pc)
    /\ IF AfterCall(h_pc, outcome) \in CallSites
       THEN /\ h_pc' = AfterCall(h_pc, outcome)
            /\ UNCHANGED <<h_data, status, intent, remaining, reset_seconds, failed, failed_how>>
       ELSE /\ Finish(AfterCall(h_pc, outcome))
            /\ failed' = IF AfterCall(h_pc, outcome) \in {ErrorStatus, "rate_limited"}
                         THEN EventOf(h_data)
                         ELSE failed
            /\ failed_how' = IF AfterCall(h_pc, outcome) \in {ErrorStatus, "rate_limited"}
                             THEN AfterCall(h_pc, outcome)
                             ELSE failed_how
    /\ UNCHANGED <<now, dedup_vars, limiter_vars, request_vars, cleanup_vars,
                   redelivery, reference_vars, history_vars, classifier_vars>>

\* The response is sent: the next request's body may run.
Respond ==
    /\ h_pc = "returned"
    /\ h_pc' = "idle"
    /\ status' = ""
    /\ calls' = <<>>
    /\ redelivery' = FALSE
    /\ dup' = [ret |-> FALSE, path |-> "none"]
    /\ dup_evicted' = <<>>
    /\ UNCHANGED <<now, processed_messages, watch, watch_evicted, dup_again,
                   limiter_vars, request_vars, cleanup_vars, h_data, intent, remaining,
                   reset_seconds, failed, failed_how, reference_vars, history_vars,
                   classifier_vars>>

slack_events ==
    \/ \E data \in Deliveries : Receive(data)
    \/ CheckRate
    \/ Remaining
    \/ \E outcome \in {"ok", "none", "raise"} : ExternalCall(outcome)
    \/ Respond

InitDedup ==
    /\ processed_messages = <<>>
    /\ dup = [ret |-> FALSE, path |-> "none"]
    /\ dup_evicted = <<>>
    /\ watch = NoEvent
    /\ watch_evicted = FALSE
    /\ dup_again = "no"

\* UserRateLimiter.__init__ (lines 37-52); `enabled` comes from the configuration.
InitLimiter ==
    /\ enabled \in BOOLEAN
    /\ user_requests = EmptyDict
    /\ team_requests = EmptyDict
    /\ user_limit_hits = 0
    /\ team_limit_hits = 0

InitRequest ==
    /\ pc = "idle"
    /\ user_id = NoUser
    /\ team_id = NoTeam
    /\ current_time = 0
    /\ count = 0
    /\ window_start = 0
    /\ team_count = 0
    /\ team_window_start = 0
    /\ ret = NotLimited
    /\ wrote_team = FALSE
    /\ passed = [u \in Users |-> 0]
    /\ team_passed = [t \in Teams |-> 0]

InitCleanup ==
    /\ cl_pc = "sleep"
    /\ cl_time = 0
    /\ iter_used = 0
    /\ visited = {}
    /\ expired_users = {}
    /\ expired_teams = {}
    /\ todo = {}
    /\ cl_ret = <<0, 0>>
    /\ cl_exc = ""
    /\ stats = EmptyDict
    /\ deleted_live = FALSE

InitPipeline ==
    /\ h_pc = "idle"
    /\ h_data = NoData
    /\ status = ""
    /\ calls = <<>>
    /\ intent = NoIntent
    /\ remaining = EmptyDict
    /\ reset_seconds = 0
    /\ failed = NoEvent
    /\ failed_how = ""
    /\ redelivery = FALSE

InitClassifier ==
    /\ typed = <<>>
    /\ verdict = NoVerdict

InitHistory ==
    admitted = [u \in Users |-> [i \in 1..(USER_RATE_LIMIT_WINDOW + 1) |-> 0]]

InitReference ==
    /\ ref_user_requests = EmptyDict
    /\ ref_team_requests = EmptyDict
    /\ ref_ret = NotLimited

Init ==
    /\ now = StartTime
    /\ InitDedup
    /\ InitLimiter
    /\ InitRequest
    /\ InitCleanup
    /\ InitPipeline
    /\ InitReference
    /\ InitHistory
    /\ InitClassifier

NextDedup ==
    \/ \E event \in Events : is_duplicate_message(event)
    \/ Tick

SpecDedup == Init /\ [][NextDedup]_vars

Next ==
    \/ is_rate_limited
    \/ HandlerEnds
    \/ rate_limit_cleanup
    \/ Tick

Spec == Init /\ [][Next]_vars

\* The event-loop thread alone, a request body at a time, from the arrival of
\* the request to its response.
NextPipeline ==
    \/ slack_events
    \/ Tick

SpecPipeline == Init /\ [][NextPipeline]_vars

\* The limiter under calls that the cleanup does not interleave with, next to
\* the reference limiter.
NextLimiter ==
    \/ \E u \in Users, t \in Teams \cup {NoTeam} : AdmitCall(u, t)
    \/ AdmitReturns
    \/ \E u \in Users, t \in Teams \cup {NoTeam} : RemainingCall(u, t)
    \/ RemainingReturns
    \/ clear_expired_entries
    \/ CleanupStats
    \/ CleanupLogs
    \/ Tick

SpecLimiter == Init /\ [][NextLimiter]_vars

\* The classifier on every message of at most MaxWords words.
NextClassifier ==
    \/ \E word \in Words : Type(word)
    \/ Classify
    \/ Clear

SpecClassifier == Init /\ [][NextClassifier]_vars

\* The cleanup thread statement by statement next to whole calls of
\* is_rate_limited.  The thread is a daemon thread the operating system keeps
\* scheduling (main.py:66-67): a step of it that is possible is eventually
\* taken.
NextCleanup ==
    \/ \E u \in Users, t \in Teams \cup {NoTeam} : RequestCall(u, t)
    \/ AdmitReturns
    \/ rate_limit_cleanup
    \/ Tick

SpecCleanup == Init /\ [][NextCleanup]_vars /\ WF_vars(rate_limit_cleanup)

\* The same two threads, with the history of the admissions kept.
NextBurst ==
    \/ \E u \in Users, t \in Teams \cup {NoTeam} : AdmitCall(u, t)
    \/ AdmitReturns
    \/ rate_limit_cleanup
    \/ Tick

SpecBurst == Init /\ [][NextBurst]_vars

\* ------------------------------------------------------------------ claims

\* C1: a request that finds its user's window unexpired passes the user check
\* when fewer than USER_RATE_LIMIT_MAX requests have passed it in that window
\* (and then returns limited only for the team limit), and is otherwise
\* rejected with the user-limit reason, the window map staying as it was.
C1_FirstMaxAdmitted ==
    [][ /\ ( /\ pc = "u_decide"
             /\ pc' # "u_decide"
             /\ current_time - window_start <= USER_RATE_LIMIT_WINDOW )
           => IF passed[user_id] < USER_RATE_LIMIT_MAX
              THEN /\ passed'[user_id] = passed[user_id] + 1
                   /\ user_requests'[user_id].count = passed[user_id] + 1
                   /\ \/ pc' = "t_in"
                      \/ pc' = "returned" /\ ret' = NotLimited /\ team_id = NoTeam
              ELSE /\ pc' = "returned"
                   /\ ret' = Limited(UserReason)
                   /\ user_requests' = user_requests
                   /\ passed' = passed
        /\ ( /\ pc \in {"t_in", "t_read", "t_decide"}
             /\ pc' = "returned"
             /\ ret'.exc = ""
             /\ ret'.limited )
           => /\ ret' = Limited(TeamReason)
              /\ team_count >= TEAM_RATE_LIMIT_MAX
      ]_vars

C1_Witness ==
    /\ pc = "returned"
    /\ ret = Limited(UserReason)
    /\ passed[user_id] = USER_RATE_LIMIT_MAX
    /\ user_id \in DOMAIN user_requests
    /\ user_requests[user_id].count = USER_RATE_LIMIT_MAX

\* C2: between two resets of a user's window at most USER_RATE_LIMIT_MAX
\* requests of that user pass the user check, whatever the cleanup thread does
\* meanwhile.
C2_AtMostMaxPerWindow ==
    \A u \in Users :
        /\ passed[u] <= USER_RATE_LIMIT_MAX
        /\ u \in DOMAIN user_requests => user_requests[u].count <= USER_RATE_LIMIT_MAX

C2_Witness ==
    /\ pc = "returned"
    /\ ret = Limited(UserReason)
    /\ passed[user_id] = USER_RATE_LIMIT_MAX
    /\ cl_pc \in {"scan_users", "del_users"}

\* C3: the cleanup never deletes a window that is unexpired at the moment of
\* the deletion, and its scans never fail because the dict changed size.
C3_CleanupExclusive ==
    /\ ~deleted_live
    /\ cl_exc # "RuntimeError"

\* C4 as claimed: an event submitted again while fresh, after a submission of
\* it while fresh, is rejected as a duplicate.
C4_SecondIsDuplicate ==
    dup_again # "no" => dup.path = "duplicate"

\* C4 as amended: it is, unless the entry stored for it has been popped by the
\* cleanup of the cache since the first submission.
C4_SecondIsDuplicateUnlessEvicted ==
    dup_again = "live" => dup.path = "duplicate"

C4_Witness ==
    /\ dup_again = "live"
    /\ dup.path = "duplicate"
    /\ Len(processed_messages) = MAX_CACHE_SIZE
    /\ create_message_hash(watch) = processed_messages[1][1]

\* C5: a call that rejects the event, as a duplicate or as stale, leaves the
\* cache as it was; what a call adds was fresh when it was added.
C5_CacheOnlyOnAccept ==
    [][ /\ dup'.path \in {"duplicate", "stale"}
           => processed_messages' = processed_messages
        /\ \A i \in 1..Len(processed_messages') :
              processed_messages'[i][1] \notin Keys(processed_messages)
              => now - ParseFloat(processed_messages'[i][2]) <= CACHE_EXPIRY_SECONDS
      ]_vars

C5_Witness ==
    /\ dup.path = "stale"
    /\ dup.ret
    /\ Len(processed_messages) = MAX_CACHE_SIZE

\* C6: the cache never holds more than MAX_CACHE_SIZE entries.
C6_CacheBounded ==
    Len(processed_messages) <= MAX_CACHE_SIZE

C6_Witness ==
    /\ Len(processed_messages) = MAX_CACHE_SIZE
    /\ dup_evicted # <<>>

\* C7: every entry the cleanup of the cache pops is, by its timestamp as a
\* number, no newer than any entry it keeps.
C7_EvictsOldest ==
    \A i \in 1..Len(dup_evicted), j \in 1..Len(processed_messages) :
        ParseFloat(dup_evicted[i][2]) <= ParseFloat(processed_messages[j][2])

\* C8 as claimed: a request that finds the window's age at or above
\* USER_RATE_LIMIT_WINDOW resets it to count 1 at its own time and is admitted.
C8_ResetAtWindowLength ==
    [][ ( /\ pc = "u_decide"
          /\ pc' # "u_decide"
          /\ current_time - window_start >= USER_RATE_LIMIT_WINDOW )
        => /\ user_requests'[user_id] = [count |-> 1, window_start |-> current_time]
           /\ \/ pc' = "t_in"
              \/ pc' = "returned" /\ ret' = NotLimited
      ]_vars

\* C8 as amended: a request that finds the window's age above
\* USER_RATE_LIMIT_WINDOW resets it to count 1 at its own time and passes the
\* user check, whatever the count was.
C8_ResetAfterWindowLength ==
    [][ ( /\ pc = "u_decide"
          /\ pc' # "u_decide"
          /\ current_time - window_start > USER_RATE_LIMIT_WINDOW )
        => /\ user_requests'[user_id] = [count |-> 1, window_start |-> current_time]
           /\ user_limit_hits' = user_limit_hits
           /\ \/ pc' = "t_in"
              \/ pc' = "returned" /\ ret' = NotLimited /\ team_id = NoTeam
      ]_vars

C8_Witness ==
    /\ pc = "t_in"
    /\ count = USER_RATE_LIMIT_MAX
    /\ current_time - window_start > USER_RATE_LIMIT_WINDOW
    /\ user_requests[user_id] = [count |-> 1, window_start |-> current_time]

\* C9: a request rejected for the user limit has written neither
\* team_requests nor team_limit_hits.
C9_UserRejectLeavesTeam ==
    (pc = "returned" /\ ret = Limited(UserReason)) => ~wrote_team

C9_Witness ==
    /\ pc = "returned"
    /\ ret = Limited(UserReason)
    /\ team_id \in DOMAIN team_requests

\* C10: with rate limiting disabled every call returns not limited, and
\* neither it nor clear_expired_entries touches the windows or the counters.
C10_DisabledAllowsAll ==
    ~enabled =>
        /\ user_requests = EmptyDict
        /\ team_requests = EmptyDict
        /\ user_limit_hits = 0
        /\ team_limit_hits = 0
        /\ pc \in {"idle", "returned"}
        /\ ret = NotLimited
        /\ cl_pc \in {"sleep", "stats", "log"}
        /\ cl_ret = <<0, 0>>

C10_Witness ==
    /\ ~enabled
    /\ pc = "returned"
    /\ user_id \in Users
    /\ team_id \in Teams
    /\ cl_pc = "stats"

\* The cache and the limiter's dicts and counters.
AdmissionState ==
    <<processed_messages, user_requests, team_requests, user_limit_hits, team_limit_hits>>

\* C11 as claimed: the handler writes the cache and the limiter only before
\* its first external call; no step from the end of admission to the return,
\* a failing call included, changes them; and a request that delivers again
\* the event whose handling failed is rejected as a duplicate, with the
\* limiter as it was.
C11_RedeliveryRejected ==
    [][ /\ AdmissionState' # AdmissionState
           => h_pc \in {"idle", "limit"} /\ calls = <<>> /\ calls' = <<>>
        /\ (calls' # calls /\ calls' # <<>>) => AdmissionState' = AdmissionState
        /\ (h_pc = "idle" /\ redelivery' /\ failed_how = "error")
           => /\ h_pc' = "returned"
              /\ status' = "ignored_duplicate"
              /\ limiter_vars' = limiter_vars
      ]_vars

\* C11 as amended: the same, the redelivery being rejected when the entry the
\* cache stored for the event is still in the cache.
C11_RedeliveryRejectedUnlessEvicted ==
    [][ /\ AdmissionState' # AdmissionState
           => h_pc \in {"idle", "limit"} /\ calls = <<>> /\ calls' = <<>>
        /\ (calls' # calls /\ calls' # <<>>) => AdmissionState' = AdmissionState
        /\ ( /\ h_pc = "idle"
             /\ redelivery'
             /\ failed_how = "error"
             /\ create_message_hash(failed) \in Keys(processed_messages) )
           => /\ h_pc' = "returned"
              /\ status' = "ignored_duplicate"
              /\ dup'.path = "duplicate"
              /\ AdmissionState' = AdmissionState
      ]_vars

C11_Witness ==
    /\ h_pc = "returned"
    /\ redelivery
    /\ failed_how = "error"
    /\ dup.path = "duplicate"
    /\ status = "ignored_duplicate"
    /\ create_message_hash(failed) \in Keys(processed_messages)
    /\ user_requests # EmptyDict

\* C12: a request whose event is_duplicate_message rejects, as a duplicate or
\* as stale, returns without reaching is_rate_limited: the windows and the hit
\* counters stay as they were; the limiter is reached by accepted events only.
C12_RejectedSkipsLimiter ==
    [][ /\ (h_pc = "idle" /\ dup'.path \in {"duplicate", "stale"})
           => /\ h_pc' = "returned"
              /\ status' = "ignored_duplicate"
              /\ limiter_vars' = limiter_vars
        /\ h_pc' = "limit" => dup'.path = "accept"
      ]_vars

C12_Witness ==
    /\ h_pc = "returned"
    /\ dup.path = "stale"
    /\ status = "ignored_duplicate"
    /\ user_requests # EmptyDict

\* C13: for an event never seen before and older than CACHE_EXPIRY_SECONDS,
\* neither what is_duplicate_message returns nor the status of the response
\* is what a duplicate gets (True, "ignored_duplicate").
C13_StaleNamedStale ==
    (h_pc = "returned" /\ dup.path = "stale")
    => /\ dup.ret # TRUE
       /\ status # "ignored_duplicate"

\* C14: an admitted message that is_web_summarization_request takes for a
\* request and that is no image request is handled on a web-summarization
\* branch.
C14_SummaryRouted ==
    ( /\ intent.label # ""
      /\ is_web_summarization_request(lower(h_data.text)).is_request
      /\ ~is_image_generation_request(lower(h_data.text)).is_request )
    => intent.label = "web_summarization"

\* C15 as claimed: "please draw a cat wearing a hat" is classified as an image
\* request with the prompt "cat wearing a hat".
C15_CatIsImageRequest ==
    (intent.label # "" /\ h_data.text = CatMessage)
    => intent = [label |-> "image_generation", prompt |-> CatPrompt]

\* C15 as amended: it is classified as no image request, for want of a noun,
\* and handled as plain conversation; "draw a picture of a cat" is an image
\* request with the prompt "picture of a cat".
C15_CatIsConversation ==
    /\ (intent.label # "" /\ h_data.text = CatMessage)
       => /\ intent.label = "plain_conversation"
          /\ is_image_generation_request(lower(h_data.text)) =
                 [is_request |-> FALSE, prompt |-> NoneValue]
    /\ (intent.label # "" /\ h_data.text = PictureMessage)
       => intent = [label |-> "image_generation", prompt |-> PicturePrompt]

C15_Witness ==
    /\ h_pc = "conv_post"
    /\ h_data.text = CatMessage
    /\ intent.label = "plain_conversation"
    /\ calls = <<"get_openai_response">>

\* C16: with rate limiting enabled, get_remaining_requests reports for a
\* window that is absent or expired the maximum and a reset time of 0, and for
\* an unexpired window max(0, maximum - count) and the seconds left in it.
C16_RemainingReport ==
    [][ (h_pc = "remaining" /\ h_pc' = "notify" /\ enabled)
        => LET u == h_data.user
               t == h_data.team_id
               user_gone == \/ u \notin DOMAIN user_requests
                            \/ now - user_requests[u].window_start > USER_RATE_LIMIT_WINDOW
               team_gone == \/ t \notin DOMAIN team_requests
                            \/ now - team_requests[t].window_start > TEAM_RATE_LIMIT_WINDOW
           IN  /\ {"user_remaining", "team_remaining", "user_window_reset_seconds",
                   "team_window_reset_seconds"} \subseteq DOMAIN remaining'
               /\ IF user_gone
                  THEN /\ remaining'["user_remaining"] = USER_RATE_LIMIT_MAX
                       /\ remaining'["user_window_reset_seconds"] = 0
                  ELSE /\ remaining'["user_remaining"] =
                              Max0(USER_RATE_LIMIT_MAX - user_requests[u].count)
                       /\ remaining'["user_window_reset_seconds"] =
                              USER_RATE_LIMIT_WINDOW - (now - user_requests[u].window_start)
               /\ IF team_gone
                  THEN /\ remaining'["team_remaining"] = TEAM_RATE_LIMIT_MAX
                       /\ remaining'["team_window_reset_seconds"] = 0
                  ELSE /\ remaining'["team_remaining"] =
                              Max0(TEAM_RATE_LIMIT_MAX - team_requests[t].count)
                       /\ remaining'["team_window_reset_seconds"] =
                              TEAM_RATE_LIMIT_WINDOW - (now - team_requests[t].window_start)
      ]_vars

\* C17: a response with an "ignored_..." status was preceded by no external
\* call, and a "rate_limited" response by the ephemeral notice and no other.
C17_IgnoredIsSilent ==
    h_pc = "returned" =>
        /\ status \in {"ignored_event_type", "ignored_channel", "ignored_dm",
                       "ignored_bot_message", "ignored_message_changed",
                       "ignored_duplicate", "ignored_empty_message"}
           => calls = <<>>
        /\ status = "rate_limited" => calls = <<"chat_postEphemeral">>

C17_Witness ==
    /\ h_pc = "returned"
    /\ status = "rate_limited"
    /\ calls = <<"chat_postEphemeral">>
    /\ user_limit_hits > 0

\* C18: a call of is_rate_limited that returns a decision returns limited for
\* the user limit exactly when it read a window of the user, unexpired at
\* current_time, with a count of USER_RATE_LIMIT_MAX or more; having passed the
\* user check, limited for the team limit exactly when it read such a window
\* of the team with TEAM_RATE_LIMIT_MAX; and not limited otherwise.
C18_RejectsExactlyAtMax ==
    [][ (pc \notin {"idle", "returned"} /\ pc' = "returned" /\ ret'.exc = "")
        => IF /\ pc = "u_decide"
              /\ current_time - window_start <= USER_RATE_LIMIT_WINDOW
              /\ count >= USER_RATE_LIMIT_MAX
           THEN ret' = [limited |-> TRUE, reason |-> "User rate limit exceeded", exc |-> ""]
           ELSE IF /\ pc = "t_decide"
                   /\ current_time - team_window_start <= TEAM_RATE_LIMIT_WINDOW
                   /\ team_count >= TEAM_RATE_LIMIT_MAX
           THEN ret' = [limited |-> TRUE, reason |-> "Team rate limit exceeded", exc |-> ""]
           ELSE ret' = [limited |-> FALSE, reason |-> "", exc |-> ""]
      ]_vars

C18_Witness ==
    /\ pc = "returned"
    /\ ret = Limited(TeamReason)
    /\ team_id \in DOMAIN team_requests
    /\ team_requests[team_id].count = TEAM_RATE_LIMIT_MAX
    /\ user_requests[user_id].count < USER_RATE_LIMIT_MAX

\* C19: every call returns on the limiter, which clear_expired_entries cleans
\* between the calls, what it returns on the reference limiter, which is
\* never cleaned; and the windows the two hold differ by expired ones only.
C19_CleanupChangesNoDecision ==
    /\ ret = ref_ret
    /\ \A u \in DOMAIN ref_user_requests :
          \/ u \in DOMAIN user_requests /\ user_requests[u] = ref_user_requests[u]
          \/ u \notin DOMAIN user_requests /\
             now - ref_user_requests[u].window_start > USER_RATE_LIMIT_WINDOW
    /\ \A t \in DOMAIN ref_team_requests :
          \/ t \in DOMAIN team_requests /\ team_requests[t] = ref_team_requests[t]
          \/ t \notin DOMAIN team_requests /\
             now - ref_team_requests[t].window_start > TEAM_RATE_LIMIT_WINDOW

C19_Witness ==
    /\ pc = "returned"
    /\ ret = Limited(UserReason)
    /\ ref_ret = Limited(UserReason)
    /\ user_requests # ref_user_requests

\* C20: a run of clear_expired_entries with rate limiting enabled deletes the
\* user windows older than USER_RATE_LIMIT_WINDOW and the team windows older
\* than TEAM_RATE_LIMIT_WINDOW, those only, keeps the other windows and the
\* hit counters as they are, and returns the two numbers of deleted entries.
C20_ClearsExactlyExpired ==
    [][ (cl_pc = "sleep" /\ cl_pc' = "stats" /\ enabled)
        => LET old_users == {u \in DOMAIN user_requests :
                   now - user_requests[u].window_start > USER_RATE_LIMIT_WINDOW}
               old_teams == {t \in DOMAIN team_requests :
                   now - team_requests[t].window_start > TEAM_RATE_LIMIT_WINDOW}
           IN  /\ DOMAIN user_requests' = DOMAIN user_requests \ old_users
               /\ DOMAIN team_requests' = DOMAIN team_requests \ old_teams
               /\ \A u \in DOMAIN user_requests' : user_requests'[u] = user_requests[u]
               /\ \A t \in DOMAIN team_requests' : team_requests'[t] = team_requests[t]
               /\ user_limit_hits' = user_limit_hits
               /\ team_limit_hits' = team_limit_hits
               /\ cl_ret' = <<Cardinality(old_users), Cardinality(old_teams)>>
      ]_vars

C20_Witness ==
    /\ cl_pc = "stats"
    /\ cl_ret[1] > cl_ret[2]
    /\ user_requests # EmptyDict
    /\ user_limit_hits > 0

\* C21: the cleanup loop never ends: whatever has happened, the thread comes
\* back to its sleep and a further cycle of it comes to its end after that
\* (by returning the counts, or by the exception handler of the loop, as after
\* the RuntimeError of a dictionary that changed size under the scan).
C21_CleanupKeepsRunning ==
    /\ []<>(cl_pc = "sleep")
    /\ []<>(cl_pc \in {"stats", "except"})

\* A cycle has failed with the error of the scan and the loop has caught it.
C21_Witness ==
    /\ cl_pc = "except"
    /\ cl_exc = "RuntimeError"

\* C22: with rate limiting on and the requests handled one at a time, at no
\* instant has a user been admitted more than 2 * USER_RATE_LIMIT_MAX times
\* within the last USER_RATE_LIMIT_WINDOW (both ends of the interval included).
C22_BurstAtMostTwiceMax ==
    \A u \in Users : Sum(admitted[u]) <= 2 * USER_RATE_LIMIT_MAX

\* C23: between two resets of a team's window at most TEAM_RATE_LIMIT_MAX
\* requests pass the team check, whichever users they come from, and the
\* window's count never exceeds that maximum; a call that names no team never
\* reaches the team check (lines 104-118), neither reading nor writing
\* team_requests or team_limit_hits, and no window is kept under the empty id.
C23_TeamWindowBounded ==
    /\ \A t \in Teams :
          /\ team_passed[t] <= TEAM_RATE_LIMIT_MAX
          /\ t \in DOMAIN team_requests =>
                 team_requests[t].count <= TEAM_RATE_LIMIT_MAX
    /\ NoTeam \notin DOMAIN team_requests
    /\ (pc # "idle" /\ team_id = NoTeam) =>
          /\ pc \notin {"t_in", "t_read", "t_decide"}
          /\ ~wrote_team

\* A team's window is full with the requests of two users and a further
\* request is turned away for the team.
C23_Witness ==
    /\ pc = "returned"
    /\ ret = Limited(TeamReason)
    /\ team_passed[team_id] = TEAM_RATE_LIMIT_MAX
    /\ DOMAIN user_requests = Users

\* C24: every step of either thread leaves user_limit_hits as it was, except
\* the return of a user-limit rejection, which adds exactly 1 to it, and
\* leaves team_limit_hits as it was, except the return of a team-limit
\* rejection, which adds exactly 1 to it (so neither counter ever decreases,
\* and admissions, the reads of the handler, get_stats and every step of
\* clear_expired_entries change neither); the dict get_stats returns holds the
\* two counters and, as the window counts, the sizes the two window maps have
\* at that moment.
C24_HitCounters ==
    [][ LET returns(reason) ==
                /\ pc \notin {"idle", "returned"}
                /\ pc' = "returned"
                /\ ret' = [limited |-> TRUE, reason |-> reason, exc |-> ""]
        IN  /\ user_limit_hits' =
                   IF returns("User rate limit exceeded")
                   THEN user_limit_hits + 1 ELSE user_limit_hits
            /\ team_limit_hits' =
                   IF returns("Team rate limit exceeded")
                   THEN team_limit_hits + 1 ELSE team_limit_hits
            /\ (cl_pc = "stats" /\ cl_pc' = "log") =>
                   /\ DOMAIN stats' = {"user_limit_hits", "team_limit_hits",
                                       "active_user_windows", "active_team_windows",
                                       "enabled"}
                   /\ stats'["user_limit_hits"] = user_limit_hits
                   /\ stats'["team_limit_hits"] = team_limit_hits
                   /\ stats'["active_user_windows"] = Cardinality(DOMAIN user_requests)
                   /\ stats'["active_team_windows"] = Cardinality(DOMAIN team_requests)
                   /\ stats'["enabled"] = enabled
      ]_vars

\* get_stats has reported a team-limit hit and two user windows next to one
\* team window.
C24_Witness ==
    /\ cl_pc = "log"
    /\ team_limit_hits = 1
    /\ stats["team_limit_hits"] = 1
    /\ stats["active_user_windows"] = 2
    /\ stats["active_team_windows"] = 1

\* C25: a message with a verb of the verb list and a noun of the noun list in
\* it, and nothing but blanks after the first occurrence of the first verb of
\* the list that occurs in it, is reported by the classifier as no image
\* request, and the handler takes the conversation branch for it.
C25_EmptyPromptNotReported ==
    LET text == lower(Text(typed))
    IN  ( /\ verdict # NoVerdict
          /\ AnyIn(image_generation_verbs, text)
          /\ AnyIn(image_nouns, text)
          /\ strip(AfterFirst(text, FirstIn(image_generation_verbs, text))) = <<>> )
        => /\ ~verdict.image.is_request
           /\ verdict.intent.label = "plain_conversation"

\* C25, amended: for such a message the classifier returns (True, ""), an
\* image request with the empty prompt, and the handler, which takes the image
\* branch for a non-empty prompt only, takes the conversation branch.
C25_EmptyPromptIsConversation ==
    LET text == lower(Text(typed))
    IN  ( /\ verdict # NoVerdict
          /\ AnyIn(image_generation_verbs, text)
          /\ AnyIn(image_nouns, text)
          /\ strip(AfterFirst(text, FirstIn(image_generation_verbs, text))) = <<>> )
        => /\ verdict.image = [is_request |-> TRUE, prompt |-> <<>>]
           /\ verdict.intent.label = "plain_conversation"

\* "art Draw " has been classified.
C25_Witness ==
    /\ typed = <<<<"a", "r", "t">>, <<" ">>, <<"D", "r", "a", "w">>, <<" ">>>>
    /\ verdict.image = [is_request |-> TRUE, prompt |-> <<>>]
    /\ verdict.intent.label = "plain_conversation"

\* C26: when a call of is_rate_limited returns the team-limit rejection, the
\* user's window has been charged by that call (created or reset to count 1
\* at the time of the call, or its count raised by 1) and the windows of the
\* teams are what they were before the call.
C26_TeamRejectChargesUser ==
    [][ ( /\ pc = "idle"
          /\ pc' = "returned"
          /\ ret' = [limited |-> TRUE, reason |-> "Team rate limit exceeded", exc |-> ""] )
        => /\ user_id' \in DOMAIN user_requests'
           /\ user_requests'[user_id'] =
                 IF \/ user_id' \notin DOMAIN user_requests
                    \/ now - user_requests[user_id'].window_start > USER_RATE_LIMIT_WINDOW
                 THEN [count |-> 1, window_start |-> now]
                 ELSE [count |-> user_requests[user_id'].count + 1,
                       window_start |-> user_requests[user_id'].window_start]
           /\ team_requests' = team_requests
      ]_vars

\* A user's first request has been turned away for the team, and the user has
\* a window with count 1 for it.
C26_Witness ==
    /\ pc = "returned"
    /\ ret = Limited(TeamReason)
    /\ user_requests[user_id] = [count |-> 1, window_start |-> now]
    /\ team_requests[team_id].count = TEAM_RATE_LIMIT_MAX

\* C27: when is_duplicate_message accepts an event, the cache it leaves holds
\* the event's fingerprint, a key the cache did not hold before the call.
C27_AcceptedIsCached ==
    [][ (now' = now /\ dup'.path = "accept")
        => \E i \in 1..Len(processed_messages') :
               processed_messages'[i][1] \notin Keys(processed_messages)
      ]_vars

\* C27, amended: the cache holds the accepted event's fingerprint after the
\* call unless the cache was full before it and the event's timestamp string
\* sorts strictly before the timestamp string of every entry of the cache;
\* then the trim pops the entry just inserted and the cache is what it was.
C27_AcceptedIsCachedUnlessSmallest ==
    [][ (now' = now /\ dup'.path = "accept")
        => \/ \E i \in 1..Len(processed_messages') :
                  processed_messages'[i][1] \notin Keys(processed_messages)
           \/ /\ Len(processed_messages) = MAX_CACHE_SIZE
              /\ processed_messages' = processed_messages
              /\ Len(dup_evicted') = 1
              /\ dup_evicted'[1][1] \notin Keys(processed_messages)
              /\ \A i \in 1..Len(processed_messages) :
                     ~StrLe(processed_messages[i][2], dup_evicted'[1][2])
      ]_vars

\* An event has been accepted into a full cache and its entry is the one the
\* trim has popped.
C27_Witness ==
    /\ dup.path = "accept"
    /\ Len(processed_messages) = MAX_CACHE_SIZE
    /\ Len(dup_evicted) = 1
    /\ dup_evicted[1][1] \notin Keys(processed_messages)
    /\ \A i \in 1..Len(processed_messages) :
           ~StrLe(processed_messages[i][2], dup_evicted[1][2])

\* C28: the handler returns ignored_empty_message only from the step that
\* runs is_rate_limited, for an event that is_duplicate_message has accepted
\* before: line 38 has stored its fingerprint (the entry is in the cache, or
\* is the one the trim of that call popped), and with rate limiting on that
\* step leaves the user's window and the team's window charged with the
\* event (created or reset to count 1 at that time, or the count raised by
\* 1); no external call has been made for it.
C28_EmptyCheckedLast ==
    [][ (status # "ignored_empty_message" /\ status' = "ignored_empty_message") =>
          LET event == [text |-> h_data.text, files |-> h_data.files, ts |-> h_data.ts]
              u == h_data.user
              t == h_data.team_id
              charged(d, k, window) ==
                  IF k \notin DOMAIN d \/ now - d[k].window_start > window
                  THEN [count |-> 1, window_start |-> now]
                  ELSE [count |-> d[k].count + 1, window_start |-> d[k].window_start]
          IN  /\ h_pc = "limit"
              /\ strip(lower(h_data.text)) = <<>>
              /\ dup.path = "accept"
              /\ \/ create_message_hash(event) \in Keys(processed_messages)
                 \/ \E i \in 1..Len(dup_evicted) :
                        dup_evicted[i][1] = create_message_hash(event)
              /\ enabled =>
                    /\ u \in DOMAIN user_requests'
                    /\ user_requests'[u] = charged(user_requests, u, USER_RATE_LIMIT_WINDOW)
                    /\ t \in DOMAIN team_requests'
                    /\ team_requests'[t] = charged(team_requests, t, TEAM_RATE_LIMIT_WINDOW)
              /\ calls' = <<>>
      ]_vars

\* A blank reply has been ignored as empty: its entry is in the cache and it
\* has taken the last place of the user's window.
C28_Witness ==
    /\ h_pc = "returned"
    /\ status = "ignored_empty_message"
    /\ \E i \in 1..Len(processed_messages) :
          processed_messages[i][1] = create_message_hash([text |-> Blank, files |-> <<>>,
                                                         ts |-> processed_messages[i][2]])
    /\ "U1" \in DOMAIN user_requests
    /\ user_requests["U1"].count = USER_RATE_LIMIT_MAX
    /\ team_requests["T1"].count = TEAM_RATE_LIMIT_MAX

\* C29: the handler returns rate_limited only for an event that
\* is_duplicate_message has accepted and stored before (its entry is in the
\* cache, or is the one the trim of that call popped); and a request that
\* delivers that event again while its entry is in the cache, whatever has
\* become of the user's window since, is ignored as a duplicate: it changes
\* neither the cache nor the limiter and no external call is made for it.
C29_LimitedThenDuplicate ==
    [][ /\ (status # "rate_limited" /\ status' = "rate_limited")
           => /\ dup.path = "accept"
              /\ \/ create_message_hash(failed') \in Keys(processed_messages)
                 \/ \E i \in 1..Len(dup_evicted) :
                        dup_evicted[i][1] = create_message_hash(failed')
        /\ ( /\ h_pc = "idle"
             /\ redelivery'
             /\ failed_how = "rate_limited"
             /\ create_message_hash(failed) \in Keys(processed_messages) )
           => /\ h_pc' = "returned"
              /\ status' = "ignored_duplicate"
              /\ processed_messages' = processed_messages
              /\ limiter_vars' = limiter_vars
              /\ calls' = <<>>
      ]_vars

\* The event that was turned away for the rate limit has come again after the
\* user's window has run out, and has been ignored as a duplicate.
C29_Witness ==
    /\ h_pc = "returned"
    /\ redelivery
    /\ failed_how = "rate_limited"
    /\ status = "ignored_duplicate"
    /\ user_limit_hits = 1
    /\ now - user_requests["U1"].window_start > USER_RATE_LIMIT_WINDOW

\* C30: with rate limiting on, at every state of the limiter and for every
\* user and team (or no team), what get_remaining_requests reports at an
\* instant decides what is_rate_limited returns at that instant: a
\* user_remaining above 0 with a team_remaining above 0 or None means the
\* call is admitted, a user_remaining of 0 means it is rejected for the user
\* limit.
C30_RemainingAgrees ==
    enabled =>
        \A u \in Users, t \in Teams \cup {NoTeam} :
            LET L == Limiter(user_requests, team_requests, user_limit_hits,
                             team_limit_hits)
                report == get_remaining_requests(L, enabled, u, t, now)
                call == RateLimit(L, enabled, u, t, now)
                team_allows == IF t = NoTeam
                               THEN report["team_remaining"] = NoneValue
                               ELSE report["team_remaining"] > 0
            IN  /\ (report["user_remaining"] > 0 /\ team_allows)
                   => call.ret = [limited |-> FALSE, reason |-> "", exc |-> ""]
                /\ report["user_remaining"] = 0
                   => call.ret = [limited |-> TRUE, reason |-> "User rate limit exceeded",
                                  exc |-> ""]

\* A user has just been turned away for the user limit, the report for that
\* user says 0, and the report for the other user, who has no window, says
\* the full maximum.
C30_Witness ==
    /\ enabled
    /\ pc = "returned"
    /\ ret = Limited(UserReason)
    /\ LET L == Limiter(user_requests, team_requests, user_limit_hits, team_limit_hits)
       IN  /\ get_remaining_requests(L, enabled, user_id, NoTeam, now)["user_remaining"] = 0
           /\ \E u \in Users \ DOMAIN user_requests :
                  get_remaining_requests(L, enabled, u, NoTeam, now)["user_remaining"] =
                      USER_RATE_LIMIT_MAX

\* C31: a request that the handler filters before the duplicate check (a
\* url_verification, an event type other than message and app_mention, a
\* channel other than the allowed one, a direct message, a message of a bot
\* or of the bot itself, a message_changed) leaves the duplicate cache, both
\* window maps and both hit counters as they were.
C31_FilteredChangesNothing ==
    [][\A data \in Deliveries :
          LET filtered == \/ data.kind = "url_verification"
                          \/ data.type \notin {"message", "app_mention"}
                          \/ data.channel # ALLOWED_CHANNEL
                          \/ data.channel_type = "im"
                          \/ data.bot_id # ""
                          \/ data.user = bot_user_id
                          \/ data.subtype \in {"bot_message", "message_changed"}
          IN  (filtered /\ Receive(data))
                  => UNCHANGED <<processed_messages, user_requests, team_requests,
                                 user_limit_hits, team_limit_hits>>]_vars

\* A message_changed event has just been answered while the cache holds a
\* fingerprint, the user and the team have a window and a request has been
\* turned away before.
C31_Witness ==
    /\ h_pc = "returned"
    /\ status = "ignored_message_changed"
    /\ processed_messages # <<>>
    /\ DOMAIN user_requests # {}
    /\ DOMAIN team_requests # {}
    /\ user_limit_hits + team_limit_hits > 0

\* C32: with maxima of at least 1, in every state every user window that is
\* tracked has a count from 1 to USER_RATE_LIMIT_MAX and every team window a
\* count from 1 to TEAM_RATE_LIMIT_MAX; and a step of either thread changes
\* the start of a window that is tracked before and after it only by the
\* reset of an expired window, which moves the start forward to the time of
\* the request and sets the count to 1: an increment keeps the start, and a
\* rejection keeps both maps.
C32_WindowsWellFormed ==
    /\ [](/\ \A u \in DOMAIN user_requests :
                 /\ 1 <= user_requests[u].count
                 /\ user_requests[u].count <= USER_RATE_LIMIT_MAX
           /\ \A t \in DOMAIN team_requests :
                 /\ 1 <= team_requests[t].count
                 /\ team_requests[t].count <= TEAM_RATE_LIMIT_MAX)
    /\ [][ /\ \A u \in DOMAIN user_requests \cap DOMAIN user_requests' :
                 /\ user_requests'[u].window_start # user_requests[u].window_start
                    => /\ pc = "u_decide"
                       /\ u = user_id
                       /\ current_time - user_requests[u].window_start >
                              USER_RATE_LIMIT_WINDOW
                       /\ user_requests'[u] =
                              [count |-> 1, window_start |-> current_time]
                       /\ user_requests'[u].window_start >
                              user_requests[u].window_start
                 /\ user_requests'[u].count = user_requests[u].count + 1
                    => user_requests'[u].window_start = user_requests[u].window_start
            /\ \A t \in DOMAIN team_requests \cap DOMAIN team_requests' :
                 /\ team_requests'[t].window_start # team_requests[t].window_start
                    => /\ pc = "t_decide"
                       /\ t = team_id
                       /\ current_time - team_requests[t].window_start >
                              TEAM_RATE_LIMIT_WINDOW
                       /\ team_requests'[t] =
                              [count |-> 1, window_start |-> current_time]
                       /\ team_requests'[t].window_start >
                              team_requests[t].window_start
                 /\ team_requests'[t].count = team_requests[t].count + 1
                    => team_requests'[t].window_start = team_requests[t].window_start
            /\ (pc # "returned" /\ pc' = "returned" /\ ret'.limited)
                   => UNCHANGED <<user_requests, team_requests>>
          ]_vars

\* A request has just reset its user's expired window to count 1 at its own
\* time, while another user's window, started earlier, is full.
C32_Witness ==
    /\ pc = "t_in"
    /\ current_time - window_start > USER_RATE_LIMIT_WINDOW
    /\ user_id \in DOMAIN user_requests
    /\ user_requests[user_id] = [count |-> 1, window_start |-> current_time]
    /\ \E u \in DOMAIN user_requests \ {user_id} :
           /\ user_requests[u].count = USER_RATE_LIMIT_MAX
           /\ user_requests[u].window_start < current_time

\* C33: get_remaining_requests and get_stats only read: a call of
\* get_remaining_requests, for any user and any team or none, and a call of
\* get_stats, in any state of the limiter, leave both window maps and both
\* hit counters as they were.
C33_ReadsChangeNothing ==
    [][ /\ \A u \in Users, t \in Teams \cup {NoTeam} :
              RemainingCall(u, t)
                  => UNCHANGED <<user_requests, team_requests, user_limit_hits,
                                 team_limit_hits>>
        /\ CleanupStats
              => UNCHANGED <<user_requests, team_requests, user_limit_hits,
                             team_limit_hits>>
      ]_vars

\* get_remaining_requests has just reported on a user whose expired window
\* is still tracked, after a request was turned away, and get_stats has
\* reported the windows of both users.
C33_Witness ==
    /\ pc = "reading"
    /\ user_id \in DOMAIN user_requests
    /\ now - user_requests[user_id].window_start > USER_RATE_LIMIT_WINDOW
    /\ remaining["user_remaining"] = USER_RATE_LIMIT_MAX
    /\ user_limit_hits + team_limit_hits > 0
    /\ cl_pc = "log"
    /\ stats["active_user_windows"] = Cardinality(Users)

\* C34: slack_events never lets a failure out: every request that arrives
\* goes on to its return, a handler that has returned has exactly one status
\* and it is one of the statuses of the handler, a status once set stays
\* until the response is sent, and an exception that nothing catches before
\* line 218, raised by is_duplicate_message in the admission (leaving the
\* cache and the limiter as they were) or by a call to the chat platform,
\* ends the request with the status "error".
C34_FailuresAreStatuses ==
    /\ [](/\ h_pc \in {"idle", "limit", "remaining", "returned"} \cup CallSites
          /\ h_pc = "returned" <=> status # ""
          /\ status \in {"", "challenge", "ignored_event_type", "ignored_channel",
                          "ignored_dm", "ignored_bot_message",
                          "ignored_message_changed", "ignored_duplicate",
                          "rate_limited", "ignored_empty_message",
                          "ok_image_generation", "ok", "error"})
    /\ [][ /\ status # "" => status' \in {status, ""}
           /\ \A data \in Deliveries :
                 (Filter(data) = "" /\ FloatRaises(data.ts) /\ Receive(data))
                     => /\ h_pc' = "returned"
                        /\ status' = "error"
                        /\ AdmissionState' = AdmissionState
           /\ ( /\ h_pc \in {"notify", "img_post", "img_update", "conv_post"}
                /\ ExternalCall("raise") )
                 => /\ h_pc' = "returned"
                    /\ status' = "error"
         ]_vars

\* A request whose event has a ts that is no number has ended in "error"
\* before any call, after the handling of an earlier event had ended in
\* "error" at an external call, the cache and the limiter being populated.
C34_Witness ==
    /\ h_pc = "returned"
    /\ status = "error"
    /\ calls = <<>>
    /\ failed_how = "error"
    /\ processed_messages # <<>>
    /\ DOMAIN user_requests # {}

=============================================================================
